---- MODULE Spec2Model ----
(***************************************************************************)
(* Model of the UBC tennis court availability tool.                        *)
(*                                                                         *)
(*   scraper.py : _verify_court_on_page, _wait_for_schedule_page,          *)
(*                _scrape_court_schedule, scrape_courts                     *)
(*   app.py     : _parse_time, group_slots_by_time_block                    *)
(*                                                                         *)
(* Four specifications share the variables of the module:                 *)
(*   Spec        the navigate / verify / extract loop of scrape_courts     *)
(*   SpecVerify  _verify_court_on_page applied to bounded pages            *)
(*   SpecExtract the per-cell extraction loop of _scrape_court_schedule    *)
(*   SpecGroup   group_slots_by_time_block applied to bounded slot lists   *)
(* Each specification leaves the variables of the other two at their idle  *)
(* values.                                                                 *)
(***************************************************************************)
EXTENDS Integers, Sequences, FiniteSets, TLC

VARIABLES
    \* ---- app.py: group_slots_by_time_block
    data,          \* the input list of slot dicts
    gpc,           \* "build" while the input is assembled, then "one", "two", "done"
    grouped,       \* what the call computed (see GroupSlotsByTimeBlock)
    one_hour_slots, \* main: the value of find_one_hour_slots(data)
    two_hour_slots, \* main: the value of find_two_hour_slots(data)
    \* ---- scraper.py: _scrape_court_schedule, the loop over the cells
    now_vancouver, \* datetime.now(vancouver_tz), in seconds since today 00:00
    span,          \* the span[title] element the loop read last
    cellIdx,       \* number of span elements processed so far
    entries,       \* the list of dicts built so far
    epc,           \* "setup", "loop" or "done"
    \* ---- scraper.py: _verify_court_on_page
    vpage,         \* the page handed to the function
    vcourt,        \* court_name
    vresult,       \* the value returned
    vpc,           \* "call" before the call, "done" after it
    \* ---- scraper.py: scrape_courts, the loop over court_names
    pc,            \* position in the body of the loop
    court_names,   \* the target list
    courtIdx,      \* index of the court of the current iteration
    page,          \* what the browser shows (see Pages)
    elapsed,       \* _wait_for_schedule_page: polls done in the current wait
    results,       \* the list scrape_courts returns
    processed_courts,
    iter,          \* history of the current iteration (see NewIter)
    lastVerify,    \* history: the last call of _verify_court_on_page
    hist,          \* history of the run (see NoHistory)
    \* ---- scraper.py: process_notifications
    new_slots,     \* the argument
    subscriptions, \* the rows of the subscriptions table
    have_client,   \* get_supabase_client() returns a client
    bot_token,     \* BOT_TOKEN is set
    npc,           \* "start", "loop" or "done"
    nslot,         \* index of the slot of the outer loop
    nsub,          \* index of the subscription of the inner loop
    sends,         \* history: the calls of requests.post, in order
    \* ---- scraper.py: scrape_courts, the discovery of the courts
    dlabels,       \* the labels of the court elements of the list page
    dcourts,       \* court_names after the sort, as digits
    dpc,           \* "page" while the page is composed, "done" after discovery
    \* ---- scraper.py: save_cache, clean_and_upload_to_supabase, load_cache
    table,         \* the rows of the court_slots table, in insertion order
    file,          \* the JSON file (see NoFile, ValidFile, InvalidFile)
    sdata,         \* save_cache: the data argument
    cpc,           \* save_cache: position
    chist,         \* history of the save (see NoSaveHistory)
    lpc,           \* load_cache: position
    loaded,        \* load_cache: the value returned and what it read (see NoLoad)
    \* ---- scraper.py: _ensure_page_size_20
    zelems,        \* the select and combobox elements of the page
    zfirst,        \* the outcome of the first call
    zsecond,       \* the outcome of a second call right after it
    zpc,           \* "page", "once" or "twice"
    \* ---- upload_json_to_supabase.py: clean_and_upload
    ujson,         \* json_data, the argument
    uidx,          \* number of items the loop has passed
    urows,         \* clean_rows, the rows built so far
    upserts,       \* history: the row lists handed to upsert(...).execute()
    upc            \* "start", "loop", "returned" or "raised"

gvars == <<data, gpc, grouped, one_hour_slots, two_hour_slots>>
evars == <<now_vancouver, span, cellIdx, entries, epc>>
vvars == <<vpage, vcourt, vresult, vpc>>
svars == <<pc, court_names, courtIdx, page, elapsed, results, processed_courts, iter, lastVerify, hist>>
nvars == <<new_slots, subscriptions, have_client, bot_token, npc, nslot, nsub, sends>>
dvars == <<dlabels, dcourts, dpc>>
cvars == <<table, file, sdata, cpc, chist, lpc, loaded>>
zvars == <<zelems, zfirst, zsecond, zpc>>
uvars == <<ujson, uidx, urows, upserts, upc>>
\* the variables of discovery, persistence, page size and the upload script
ovars == <<dvars, cvars, zvars, uvars>>
vars  == <<data, gpc, grouped, one_hour_slots, two_hour_slots, now_vancouver, span, cellIdx, entries, epc,
           vpage, vcourt, vresult, vpc,
           pc, court_names, courtIdx, page, elapsed, results, processed_courts, iter, lastVerify, hist,
           new_slots, subscriptions, have_client, bot_token, npc, nslot, nsub, sends,
           dlabels, dcourts, dpc, table, file, sdata, cpc, chist, lpc, loaded,
           zelems, zfirst, zsecond, zpc, ujson, uidx, urows, upserts, upc>>

(***************************************************************************)
(* Generic helpers                                                         *)
(***************************************************************************)
Range(s) == {s[i] : i \in DOMAIN s}

(***************************************************************************)
(* app.py: the slot dicts and _parse_time                                  *)
(*                                                                         *)
(* A slot dict is [court, time, link].  Its time string is <<>> for the    *)
(* empty string and <<date, hh, period>> for "YYYY-MM-DD hh:00 AM|PM", the *)
(* format _scrape_court_schedule and load_cache write (date counts days,   *)
(* hh is the 12-hour clock hour).  A datetime is the number of hours since *)
(* day 0, 00:00.                                                           *)
(***************************************************************************)
MaxSlots == 3      \* longest input list of group_slots_by_time_block

Courts == {"Court 01", "Court 02"}

\* int(re.search(r'\d+', x).group())
CourtNum(c) == CASE c = "Court 01" -> 1
                 [] c = "Court 02" -> 2
                 [] c = "Court 10" -> 10
                 [] OTHER -> 0

\* the booking link of a cell: page.url of the court's schedule page
LinkOf(c) == <<"link", c>>

\* the time strings that occur: "", three consecutive hours of day 0, and the
\* last hour of day 0 followed by the first hour of day 1
TimeStrings ==
    {<<>>, <<0, 3, "PM">>, <<0, 4, "PM">>, <<0, 5, "PM">>, <<0, 11, "PM">>, <<1, 12, "AM">>}

SlotDicts == {[court |-> c, time |-> t, link |-> LinkOf(c)] : c \in Courts, t \in TimeStrings}

\* strptime's %I with %p: 12 AM is hour 0, 12 PM is hour 12
Hour24(hh, period) ==
    IF period = "PM" /\ hh # 12 THEN hh + 12
    ELSE IF period = "AM" /\ hh = 12 THEN 0
    ELSE hh

\* _parse_time(value) is not None
ParseOk(value) == value # <<>>

\* _parse_time(value), for a value it parses
ParseTime(value) == value[1] * 24 + Hour24(value[2], value[3])

DtDate(dt) == dt \div 24        \* dt.date()
DtHour(dt) == dt % 24           \* dt.hour

(***************************************************************************)
(* app.py: group_slots_by_time_block                                       *)
(*                                                                         *)
(* parsed is a sequence of indices into the input list d (the item of a    *)
(* pair (item, dt) is the dict object d[k], its dt is ParseTime of its     *)
(* time).                                                                  *)
(***************************************************************************)
DtOf(d, k) == ParseTime(d[k].time)

RECURSIVE InsertByDt(_, _, _)
\* one step of the stable sort by dt: k goes after every element whose dt is <= its own
InsertByDt(d, sorted, k) ==
    IF sorted = <<>> THEN <<k>>
    ELSE IF DtOf(d, Head(sorted)) <= DtOf(d, k)
         THEN <<Head(sorted)>> \o InsertByDt(d, Tail(sorted), k)
         ELSE <<k>> \o sorted

RECURSIVE ParsedFrom(_, _, _)
ParsedFrom(d, k, acc) ==
    IF k > Len(d) THEN acc
    ELSE ParsedFrom(d, k + 1, IF ParseOk(d[k].time) THEN InsertByDt(d, acc, k) ELSE acc)

RECURSIVE UnsortedFrom(_, _, _)
UnsortedFrom(d, k, acc) ==
    IF k > Len(d) THEN acc
    ELSE UnsortedFrom(d, k + 1, IF ParseOk(d[k].time) THEN Append(acc, k) ELSE acc)

\* mutant: the list is filtered but parsed.sort is left out
ParsedUnsorted(d) == UnsortedFrom(d, 1, <<>>)

\* parsed, after the filter and parsed.sort(key=lambda x: x[1])
Parsed(d) == ParsedFrom(d, 1, <<>>)

\* mutant: the partner's court is not compared
PartnerOkAnyCourt(d, parsed, i, j, processed) ==
    /\ i # j
    /\ j \notin processed
    /\ DtDate(DtOf(d, parsed[j])) = DtDate(DtOf(d, parsed[i]) + 1)
    /\ DtHour(DtOf(d, parsed[j])) = DtHour(DtOf(d, parsed[i]) + 1)

\* mutant: a slot that is already part of a block may be paired again
PartnerOkReuse(d, parsed, i, j, processed) ==
    /\ i # j
    /\ d[parsed[i]].court = d[parsed[j]].court
    /\ DtDate(DtOf(d, parsed[j])) = DtDate(DtOf(d, parsed[i]) + 1)
    /\ DtHour(DtOf(d, parsed[j])) = DtHour(DtOf(d, parsed[i]) + 1)

\* mutant: the partner's date is compared with the date of the first hour
PartnerOkSameDay(d, parsed, i, j, processed) ==
    /\ i # j
    /\ j \notin processed
    /\ d[parsed[i]].court = d[parsed[j]].court
    /\ DtDate(DtOf(d, parsed[j])) = DtDate(DtOf(d, parsed[i]))
    /\ DtHour(DtOf(d, parsed[j])) = DtHour(DtOf(d, parsed[i]) + 1)

\* the condition of the inner loop: parsed[j] is the second hour for parsed[i]
PartnerOk(d, parsed, i, j, processed) ==
    /\ i # j
    /\ j \notin processed
    /\ d[parsed[i]].court = d[parsed[j]].court
    /\ DtDate(DtOf(d, parsed[j])) = DtDate(DtOf(d, parsed[i]) + 1)
    /\ DtHour(DtOf(d, parsed[j])) = DtHour(DtOf(d, parsed[i]) + 1)

RECURSIVE FindPartner(_, _, _, _, _)
\* the inner loop: the first j that PartnerOk accepts, 0 when there is none
FindPartner(d, parsed, i, j, processed) ==
    IF j > Len(parsed) THEN 0
    ELSE IF PartnerOk(d, parsed, i, j, processed) THEN j
    ELSE FindPartner(d, parsed, i, j + 1, processed)

\* the dict appended to two_hour_slots_list; src names the two dict objects
\* (item, other_item) the block was built from
TwoHourSlot(d, parsed, i, j) ==
    [start          |-> DtOf(d, parsed[i]),
     end            |-> DtOf(d, parsed[j]) + 1,
     court          |-> d[parsed[i]].court,
     start_time_str |-> d[parsed[i]].time,
     end_time_str   |-> d[parsed[j]].time,
     link           |-> d[parsed[i]].link,
     src            |-> <<parsed[i], parsed[j]>>]

RECURSIVE PairLoop(_, _, _, _)
\* the outer loop over parsed; st is [list, processed]
PairLoop(d, parsed, i, st) ==
    IF i > Len(parsed) THEN st
    ELSE IF i \in st.processed THEN PairLoop(d, parsed, i + 1, st)
    ELSE LET j == FindPartner(d, parsed, i, 1, st.processed) IN
         IF j = 0 THEN PairLoop(d, parsed, i + 1, st)
         ELSE PairLoop(d, parsed, i + 1,
                       [list      |-> Append(st.list, TwoHourSlot(d, parsed, i, j)),
                        processed |-> st.processed \cup {i, j}])

\* two_hour_slots_list and processed_indices after the pairing loop
PairAdjacentHours(d) ==
    PairLoop(d, Parsed(d), 1, [list |-> <<>>, processed |-> {}])

\* mutant: the one-hour grouping does not skip the processed indices
RemainingAll(parsed, processed) ==
    [n \in 1..Len(parsed) |-> parsed[n]]

\* mutant: the first remaining item is not filed
RemainingButFirst(parsed, processed) ==
    LET Idx == SelectSeq([n \in 1..Len(parsed) |-> n], LAMBDA n : n \notin processed)
    IN  [n \in 1..(Len(Idx) - 1) |-> parsed[Idx[n + 1]]]

\* the items the second loop over parsed files under time_blocks, in order
Remaining(parsed, processed) ==
    LET Idx == SelectSeq([n \in 1..Len(parsed) |-> n], LAMBDA n : n \notin processed)
    IN  [n \in 1..Len(Idx) |-> parsed[Idx[n]]]

\* block_key of a two-hour slot and of a remaining item
BlockKey(dt) == <<DtDate(dt), DtHour(dt)>>

RECURSIVE KeyOrder(_, _)
\* the keys of a defaultdict in insertion order
KeyOrder(keys, acc) ==
    IF keys = <<>> THEN acc
    ELSE KeyOrder(Tail(keys),
                  IF Head(keys) \in Range(acc) THEN acc ELSE Append(acc, Head(keys)))

RECURSIVE InsertCourt(_, _)
InsertCourt(sorted, c) ==
    IF sorted = <<>> THEN <<c>>
    ELSE IF CourtNum(Head(sorted)) <= CourtNum(c)
         THEN <<Head(sorted)>> \o InsertCourt(Tail(sorted), c)
         ELSE <<c>> \o sorted

RECURSIVE SortCourts(_, _)
\* sorted(courts, key=lambda x: int(re.search(r'\d+', x).group()))
SortCourts(cs, acc) ==
    IF cs = <<>> THEN acc ELSE SortCourts(Tail(cs), InsertCourt(acc, Head(cs)))

\* the calendar event of one two-hour time block
TwoHourEvent(slots) ==
    LET courts == SortCourts([n \in 1..Len(slots) |-> slots[n].court], <<>>) IN
    [start      |-> slots[1].start,
     end        |-> slots[1].end,
     resourceId |-> IF Len(courts) = 1 THEN courts[1] ELSE "Multiple",
     courts     |-> courts,
     isTwoHour  |-> TRUE,
     link       |-> slots[1].link]

\* the calendar event of one one-hour time block
OneHourEvent(d, items) ==
    LET courts == SortCourts([n \in 1..Len(items) |-> d[items[n]].court], <<>>) IN
    [start      |-> ParseTime(d[items[1]].time),
     end        |-> ParseTime(d[items[1]].time) + 1,
     resourceId |-> IF Len(courts) = 1 THEN courts[1] ELSE "Multiple",
     courts     |-> courts,
     isTwoHour  |-> FALSE,
     link       |-> d[items[1]].link]

\* group_slots_by_time_block(d): the intermediate collections and the events
GroupSlotsByTimeBlock(d) ==
    LET parsed    == Parsed(d)
        paired    == PairLoop(d, parsed, 1, [list |-> <<>>, processed |-> {}])
        list      == paired.list
        rest      == Remaining(parsed, paired.processed)
        twoKeys   == KeyOrder([n \in 1..Len(list) |-> BlockKey(list[n].start)], <<>>)
        oneKeys   == KeyOrder([n \in 1..Len(rest) |-> BlockKey(DtOf(d, rest[n]))], <<>>)
        twoBlocks == [k \in Range(twoKeys) |->
                         SelectSeq(list, LAMBDA s : BlockKey(s.start) = k)]
        oneBlocks == [k \in Range(oneKeys) |->
                         SelectSeq(rest, LAMBDA it : BlockKey(DtOf(d, it)) = k)]
    IN  [two_hour_slots_list  |-> list,
         processed_indices    |-> {parsed[i] : i \in paired.processed},
         two_hour_time_blocks |-> twoBlocks,
         time_blocks          |-> oneBlocks,
         events               |->
             [n \in 1..Len(twoKeys) |-> TwoHourEvent(twoBlocks[twoKeys[n]])]
             \o [n \in 1..Len(oneKeys) |-> OneHourEvent(d, oneBlocks[oneKeys[n]])]]

NoGroups == [two_hour_slots_list |-> <<>>, processed_indices |-> {},
             two_hour_time_blocks |-> <<>>, time_blocks |-> <<>>, events |-> <<>>]

(***************************************************************************)
(* app.py: find_one_hour_slots and find_two_hour_slots                     *)
(*                                                                         *)
(* Both work on the same parsed list as group_slots_by_time_block.  The    *)
(* dicts they return are given with src, the dict objects of the input     *)
(* they were built from; formatted_time is left out.                       *)
(***************************************************************************)
TopN == 3

\* lst[:n]
Take(lst, n) == SubSeq(lst, 1, IF Len(lst) < n THEN Len(lst) ELSE n)

\* find_one_hour_slots, the inner loop: some pair of parsed is at the next
\* hour of parsed[i] and on its court
NextHourOnCourt(d, parsed, i) ==
    \E j \in 1..Len(parsed) :
        /\ DtDate(DtOf(d, parsed[j])) = DtDate(DtOf(d, parsed[i]) + 1)
        /\ DtHour(DtOf(d, parsed[j])) = DtHour(DtOf(d, parsed[i]) + 1)
        /\ d[parsed[i]].court = d[parsed[j]].court

\* the dict appended to one_hour_slots
OneHourSlot(d, k) ==
    [court |-> d[k].court, time |-> d[k].time, link |-> d[k].link, src |-> k]

RECURSIVE OneHourLoop(_, _, _, _)
\* find_one_hour_slots, the loop over parsed; st is [list, seen_times]
OneHourLoop(d, parsed, i, st) ==
    IF i > Len(parsed) THEN st
    ELSE IF BlockKey(DtOf(d, parsed[i])) \in st.seen_times
         THEN OneHourLoop(d, parsed, i + 1, st)
    ELSE IF NextHourOnCourt(d, parsed, i)
         THEN OneHourLoop(d, parsed, i + 1,
                  [st EXCEPT !.seen_times = @ \cup {BlockKey(DtOf(d, parsed[i]) + 1)}])
    ELSE OneHourLoop(d, parsed, i + 1,
                  [st EXCEPT !.list = Append(@, OneHourSlot(d, parsed[i]))])

\* find_one_hour_slots(d)
FindOneHourSlots(d) ==
    Take(OneHourLoop(d, Parsed(d), 1, [list |-> <<>>, seen_times |-> {}]).list, TopN)

\* pair_key = (dt, other_dt, item['court'])
PairKey(d, parsed, i, j) == <<DtOf(d, parsed[i]), DtOf(d, parsed[j]), d[parsed[i]].court>>

\* find_two_hour_slots: parsed[j] is on the court of parsed[i], one hour later
SecondHourOf(d, parsed, i, j) ==
    /\ i # j
    /\ d[parsed[i]].court = d[parsed[j]].court
    /\ DtDate(DtOf(d, parsed[j])) = DtDate(DtOf(d, parsed[i]) + 1)
    /\ DtHour(DtOf(d, parsed[j])) = DtHour(DtOf(d, parsed[i]) + 1)

RECURSIVE NewPairPartner(_, _, _, _, _)
\* find_two_hour_slots, the inner loop: the first j whose pair_key is not in
\* seen_pairs (a seen pair_key is passed over with continue), 0 when none
NewPairPartner(d, parsed, i, j, seen_pairs) ==
    IF j > Len(parsed) THEN 0
    ELSE IF SecondHourOf(d, parsed, i, j) /\ PairKey(d, parsed, i, j) \notin seen_pairs
         THEN j
    ELSE NewPairPartner(d, parsed, i, j + 1, seen_pairs)

\* the dict appended to two_hour_slots
TwoHourPair(d, parsed, i, j) ==
    [court      |-> d[parsed[i]].court,
     start_time |-> d[parsed[i]].time,
     end_time   |-> d[parsed[j]].time,
     status     |-> "Open (2 hours)",
     link       |-> d[parsed[i]].link,
     src        |-> <<parsed[i], parsed[j]>>]

RECURSIVE TwoHourLoop(_, _, _, _)
\* find_two_hour_slots, the loop over parsed; st is [list, seen_pairs]
TwoHourLoop(d, parsed, i, st) ==
    IF i > Len(parsed) THEN st
    ELSE LET j  == NewPairPartner(d, parsed, i, 1, st.seen_pairs)
             nx == IF j = 0 THEN st
                   ELSE [list       |-> Append(st.list, TwoHourPair(d, parsed, i, j)),
                         seen_pairs |-> st.seen_pairs \cup {PairKey(d, parsed, i, j)}]
         IN  IF Len(nx.list) >= TopN THEN nx
             ELSE TwoHourLoop(d, parsed, i + 1, nx)

\* find_two_hour_slots(d)
FindTwoHourSlots(d) ==
    Take(TwoHourLoop(d, Parsed(d), 1, [list |-> <<>>, seen_pairs |-> {}]).list, TopN)

GroupIdle ==
    /\ data = <<>> /\ gpc = "idle" /\ grouped = NoGroups
    /\ one_hour_slots = <<>> /\ two_hour_slots = <<>>

GroupInit ==
    /\ data = <<>> /\ gpc = "build" /\ grouped = NoGroups
    /\ one_hour_slots = <<>> /\ two_hour_slots = <<>>

\* the caller appends one more slot dict to the list it will pass
AddSlot ==
    /\ gpc = "build"
    /\ Len(data) < MaxSlots
    /\ \E s \in SlotDicts : data' = Append(data, s)
    /\ UNCHANGED <<gpc, grouped, one_hour_slots, two_hour_slots, evars, vvars, svars, nvars, ovars>>

\* main: one_hour_slots = find_one_hour_slots(data)
CallFindOneHour ==
    /\ gpc = "build"
    /\ one_hour_slots' = FindOneHourSlots(data)
    /\ gpc' = "one"
    /\ UNCHANGED <<data, grouped, two_hour_slots, evars, vvars, svars, nvars, ovars>>

\* main: two_hour_slots = find_two_hour_slots(data)
CallFindTwoHour ==
    /\ gpc = "one"
    /\ two_hour_slots' = FindTwoHourSlots(data)
    /\ gpc' = "two"
    /\ UNCHANGED <<data, grouped, one_hour_slots, evars, vvars, svars, nvars, ovars>>

\* render_calendar_view: events = group_slots_by_time_block(data)
CallGroup ==
    /\ gpc = "two"
    /\ grouped' = GroupSlotsByTimeBlock(data)
    /\ gpc' = "done"
    /\ UNCHANGED <<data, one_hour_slots, two_hour_slots, evars, vvars, svars, nvars, ovars>>

(***************************************************************************)
(* scraper.py: _scrape_court_schedule, the loop over the span[title]       *)
(* elements of the grid cells                                              *)
(*                                                                         *)
(* Instants are seconds since 00:00 of today (Vancouver wall clock, no     *)
(* daylight-saving change inside the window).  A span is                   *)
(*   title : [kind, hh, period]                                            *)
(*             kind "none"    no title, or one without AM / PM             *)
(*             kind "nomatch" AM / PM present, but no "<h>:00 AM|PM"       *)
(*             kind "clock"   the first "<hh>:00 <period>" of the title    *)
(*   text  : the lower-cased inner text                                    *)
(*   left  : the computed left position of its grid cell in px, or         *)
(*           LeftFails when evaluating it raises                           *)
(***************************************************************************)
MaxCells == 2          \* number of span elements on a schedule page
HorizonHours == 72
SecondsPerHour == 60 * 60
SecondsPerDay == 24 * 60 * 60
ColumnWidth == 208
ColumnOrigin == 2
TodayMaxLeft == 10
MaxBookLen == 50
LeftFails == 0 - 1

NowValues == {15 * SecondsPerHour, 15 * SecondsPerHour + 30}

NoTitle      == [kind |-> "none", hh |-> 0, period |-> ""]
NoMatchTitle == [kind |-> "nomatch", hh |-> 0, period |-> ""]
ClockTitle(hh, period) == [kind |-> "clock", hh |-> hh, period |-> period]

SpanTitles ==
    {NoTitle, NoMatchTitle,
     ClockTitle(2, "PM"), ClockTitle(3, "PM"), ClockTitle(4, "PM"), ClockTitle(13, "PM")}

SpanTexts == {"bookable 24hrs in advance", "book now", "booked", "unavailable"}

SpanLefts == {ColumnOrigin, ColumnOrigin + 3 * ColumnWidth, LeftFails}

Spans == [title : SpanTitles, text : SpanTexts, left : SpanLefts]

\* len(span_text)
TextLen(text) ==
    CASE text = "bookable 24hrs in advance" -> 25
      [] text = "book now" -> 8
      [] text = "booked" -> 6
      [] text = "unavailable" -> 11
      [] OTHER -> 0

\* "bookable 24hrs in advance" in span_text or "bookable 24 hours in advance" in span_text
HasAdvancePhrase(text) == text = "bookable 24hrs in advance"

\* "book now" in span_text
HasBookNow(text) == text = "book now"

\* "book" in span_text
HasBook(text) == text \in {"bookable 24hrs in advance", "book now", "booked"}

\* is_bookable
IsBookable(text) ==
    \/ HasAdvancePhrase(text)
    \/ HasBookNow(text)
    \/ (HasBook(text) /\ TextLen(text) < MaxBookLen)

\* status
StatusOf(text) == IF HasAdvancePhrase(text) THEN "Bookable in 24h" ELSE "Open"

\* int(round(n / d)) for n >= 0: Python rounds halves to the even neighbour
RoundHalfEven(n, d) ==
    LET q == n \div d
        r == n % d
    IN  IF 2 * r < d THEN q
        ELSE IF 2 * r > d THEN q + 1
        ELSE IF q % 2 = 0 THEN q ELSE q + 1

\* day_offset
DayOffset(left) ==
    IF left = LeftFails THEN 0
    ELSE IF left <= TodayMaxLeft THEN 0
    ELSE RoundHalfEven(left - ColumnOrigin, ColumnWidth)

\* the conversion to the 24-hour clock of the hour read from the title
To24Hour(hh, period) ==
    IF period = "PM" /\ hh # 12 THEN hh + 12
    ELSE IF period = "AM" /\ hh = 12 THEN 0
    ELSE hh

\* datetime(year, month, day, hour, minute) accepts the hour
DatetimeOk(hour) == hour >= 0 /\ hour <= 23

\* slot_datetime, for an hour datetime() accepts
SlotDatetime(offset, hour) == offset * SecondsPerDay + hour * SecondsPerHour

\* max_datetime
MaxDatetime(now) == now + HorizonHours * SecondsPerHour

\* slot_datetime > max_datetime
BeyondHorizon(slot_dt, now) == slot_dt > MaxDatetime(now)

\* slot_datetime < now_vancouver
InThePast(slot_dt, now) == slot_dt < now

\* the dict appended to entries for a span
EntryOf(court_name, sp) ==
    [court    |-> court_name,
     time     |-> <<DayOffset(sp.left), sp.title.hh, sp.title.period>>,
     status   |-> StatusOf(sp.text),
     link     |-> LinkOf(court_name),
     raw_text |-> sp.text]

\* mutant: a timestamp that cannot be built drops the span
FilteredOutStrict(sp, now) ==
    LET hour == To24Hour(sp.title.hh, sp.title.period) IN
    IF ~DatetimeOk(hour) THEN TRUE
    ELSE \/ BeyondHorizon(SlotDatetime(DayOffset(sp.left), hour), now)
         \/ InThePast(SlotDatetime(DayOffset(sp.left), hour), now)

\* the try block around the horizon filter: TRUE when it reaches a continue.
\* When datetime() raises, the except clause logs and the span is kept.
FilteredOut(sp, now) ==
    LET hour == To24Hour(sp.title.hh, sp.title.period) IN
    IF ~DatetimeOk(hour) THEN FALSE
    ELSE \/ BeyondHorizon(SlotDatetime(DayOffset(sp.left), hour), now)
         \/ InThePast(SlotDatetime(DayOffset(sp.left), hour), now)

\* one pass of the inner loop: the dicts it appends for span sp (none or one)
SpanEntries(court_name, sp, now) ==
    IF sp.title.kind = "none" THEN <<>>
    ELSE IF ~IsBookable(sp.text) THEN <<>>
    ELSE IF sp.title.kind = "nomatch" THEN <<>>
    ELSE IF FilteredOut(sp, now) THEN <<>>
    ELSE <<EntryOf(court_name, sp)>>

ExtractCourt == "Court 01"

NoSpan == [title |-> NoTitle, text |-> "unavailable", left |-> LeftFails]

ExtractIdle ==
    /\ now_vancouver = 0 /\ span = NoSpan /\ cellIdx = 0 /\ entries = <<>> /\ epc = "idle"

\* entries = [] and now_vancouver = datetime.now(vancouver_tz)
ExtractInit ==
    /\ now_vancouver \in NowValues
    /\ span = NoSpan /\ cellIdx = 0 /\ entries = <<>> /\ epc = "loop"

\* one pass of the loop body for the next span of the page
ProcessSpan ==
    /\ epc = "loop"
    /\ cellIdx < MaxCells
    /\ \E sp \in Spans :
          /\ span' = sp
          /\ entries' = entries \o SpanEntries(ExtractCourt, sp, now_vancouver)
    /\ cellIdx' = cellIdx + 1
    /\ UNCHANGED <<now_vancouver, epc, gvars, vvars, svars, nvars, ovars>>

\* reading the next span raises: the except clause of the loop body skips it
SpanRaises ==
    /\ epc = "loop"
    /\ cellIdx < MaxCells
    /\ cellIdx' = cellIdx + 1
    /\ span' = NoSpan
    /\ UNCHANGED <<now_vancouver, entries, epc, gvars, vvars, svars, nvars, ovars>>

\* the loops are exhausted: return entries
ReturnEntries ==
    /\ epc = "loop"
    /\ epc' = "done"
    /\ UNCHANGED <<now_vancouver, span, cellIdx, entries, gvars, vvars, svars, nvars, ovars>>

(***************************************************************************)
(* scraper.py: _verify_court_on_page                                       *)
(*                                                                         *)
(* A text that names a court is modelled by the digits that follow         *)
(* "Court " in it: <<0, 1>> for "Court 01", <<1, 0>> for "Court 10", <<>>  *)
(* for a text without "Court <digits>".  A page, as the function reads it: *)
(*   title    the digits of the court named in page.title()                *)
(*   headings the set of digit strings named in the h1..h6 elements        *)
(*   body     the sequence of "Court <digits>" occurrences of the body     *)
(*   url      the digits of a court named in page.url                      *)
(*   broken   the reads that raise, among "title", "headings", "body",     *)
(*            "url"                                                        *)
(***************************************************************************)
MaxMentions == 3       \* "Court <digits>" occurrences in a page body
MaxBodyCourts == 2     \* the body check accepts at most this many occurrences

CourtNames == {"Court 01", "Court 02", "Court 10"}

\* the digits after "Court " in a court name
CourtDigits(court_name) ==
    CASE court_name = "Court 01" -> <<0, 1>>
      [] court_name = "Court 02" -> <<0, 2>>
      [] court_name = "Court 10" -> <<1, 0>>
      [] court_name = "Court 12" -> <<1, 2>>
      [] OTHER -> <<>>

Labels == {CourtDigits(c) : c \in CourtNames}

NoText == <<>>

RECURSIVE DigitsValue(_)
\* int("<digits>")
DigitsValue(ds) ==
    IF ds = <<>> THEN 0 ELSE 10 * DigitsValue(SubSeq(ds, 1, Len(ds) - 1)) + ds[Len(ds)]

RECURSIVE NumDigits(_)
\* str(n)
NumDigits(n) == IF n < 10 THEN <<n>> ELSE NumDigits(n \div 10) \o <<n % 10>>

\* f"{n:02d}"
Pad2(n) == IF n < 10 THEN <<0, n>> ELSE NumDigits(n)

\* int(re.search(r'Court\s+0?(\d+)', court_name).group(1)): an optional
\* leading 0 is left out of the group when a digit follows it
CourtNumber(ds) ==
    IF Len(ds) >= 2 /\ ds[1] = 0 THEN DigitsValue(Tail(ds)) ELSE DigitsValue(ds)

\* court_patterns: the digits each pattern asks for after "Court\s+"
CourtPatterns(court_name) ==
    LET n == CourtNumber(CourtDigits(court_name)) IN
    {Pad2(n), NumDigits(n), <<0>> \o NumDigits(n)}

\* re.search(pattern, text): the text names a court whose digits start with
\* the digits of the pattern
PatternFound(pattern, text) ==
    /\ Len(pattern) <= Len(text)
    /\ SubSeq(text, 1, Len(pattern)) = pattern

TitleSignal(pg, court_name) ==
    /\ "title" \notin pg.broken
    /\ \E p \in CourtPatterns(court_name) : PatternFound(p, pg.title)

HeadingSignal(pg, court_name) ==
    /\ "headings" \notin pg.broken
    /\ \E h \in pg.headings : \E p \in CourtPatterns(court_name) : PatternFound(p, h)

\* the pattern occurs in the body and re.findall(r'Court\s+\d+') has at most 2 hits
BodySignal(pg, court_name) ==
    /\ "body" \notin pg.broken
    /\ \E n \in 1..Len(pg.body) :
          \E p \in CourtPatterns(court_name) : PatternFound(p, pg.body[n])
    /\ Len(pg.body) <= MaxBodyCourts

UrlSignal(pg, court_name) ==
    /\ "url" \notin pg.broken
    /\ \E p \in CourtPatterns(court_name) : PatternFound(p, pg.url)

\* mutant: the page is accepted only on two signals
VerifyOnTwoSignals(pg, court_name) ==
    Cardinality({sig \in {"title", "headings", "body", "url"} :
                    \/ sig = "title" /\ TitleSignal(pg, court_name)
                    \/ sig = "headings" /\ HeadingSignal(pg, court_name)
                    \/ sig = "body" /\ BodySignal(pg, court_name)
                    \/ sig = "url" /\ UrlSignal(pg, court_name)}) >= 2

\* _verify_court_on_page(page, court_name): the first check that finds the
\* court returns True, a check that raises is passed over
VerifyCourtOnPage(pg, court_name) ==
    \/ TitleSignal(pg, court_name)
    \/ HeadingSignal(pg, court_name)
    \/ BodySignal(pg, court_name)
    \/ UrlSignal(pg, court_name)

RECURSIVE SeqsUpTo(_, _)
\* the sequences over S of length at most n
SeqsUpTo(S, n) ==
    IF n = 0 THEN {<<>>}
    ELSE LET shorter == SeqsUpTo(S, n - 1) IN
         shorter \cup {Append(q, x) : q \in shorter, x \in S}

BrokenReads == {{}, {"title"}, {"headings"}, {"body"}, {"url"}}

VerifyPages ==
    [title    : Labels \cup {NoText},
     headings : SUBSET Labels,
     body     : SeqsUpTo(Labels, MaxMentions),
     url      : {NoText, <<0, 1>>},
     broken   : BrokenReads]

NoPage == [title |-> NoText, headings |-> {}, body |-> <<>>, url |-> NoText, broken |-> {}]

VerifyIdle == vpage = NoPage /\ vcourt = "" /\ vresult = FALSE /\ vpc = "idle"

VerifyInit == vpage = NoPage /\ vcourt = "" /\ vresult = FALSE /\ vpc = "load"

\* the browser shows some page and a court is asked for
LoadPage ==
    /\ vpc = "load"
    /\ vpage' \in VerifyPages
    /\ vcourt' \in CourtNames
    /\ vpc' = "call"
    /\ UNCHANGED <<vresult, gvars, evars, svars, nvars, ovars>>

\* vresult = await _verify_court_on_page(page, court_name)
CallVerify ==
    /\ vpc = "call"
    /\ vresult' = VerifyCourtOnPage(vpage, vcourt)
    /\ vpc' = "done"
    /\ UNCHANGED <<vpage, vcourt, gvars, evars, svars, nvars, ovars>>

VerifyNext == LoadPage \/ CallVerify

(***************************************************************************)
(* scraper.py: scrape_courts, the loop over court_names, with              *)
(* _wait_for_schedule_page and the call of _scrape_court_schedule          *)
(*                                                                         *)
(* The browser page carries, beside what _verify_court_on_page reads:      *)
(*   kind     "list", "detail" or "blank"                                  *)
(*   shown    the court whose schedule a detail page displays              *)
(*   courtEls the number of elements matching text=/Court\s+\d+/i          *)
(*   schedule the page holds a schedule table (and #scheduler)             *)
(*   urlok    the URL holds perfectmind, book, schedule or facility        *)
(* The browser is driven by a site that may show another page at every     *)
(* point where the scraper waits (PageChanges).                            *)
(* Times of _wait_for_schedule_page are in milliseconds.                   *)
(***************************************************************************)
MaxPageSlots == 2      \* slots a schedule page offers
MaxWait == 30000
CheckInterval == 1000
MaxButtonWait == 10000
ButtonCheckInterval == 500
ListThreshold == 5
MinListCourts == 3
VisibleCourts == 10

DefaultPageSize == 10
WantedPageSize == 20

\* the court list as the site renders it: size is its page size, 0 on a page
\* that is not the list
ListPage ==
    [kind |-> "list", shown |-> "", courtEls |-> VisibleCourts, schedule |-> FALSE,
     urlok |-> TRUE, title |-> NoText, headings |-> {},
     body |-> <<<<0, 1>>, <<0, 2>>, <<1, 0>>>>, url |-> NoText, broken |-> {},
     size |-> DefaultPageSize]

BlankPage ==
    [kind |-> "blank", shown |-> "", courtEls |-> 0, schedule |-> FALSE,
     urlok |-> FALSE, title |-> NoText, headings |-> {},
     body |-> <<>>, url |-> NoText, broken |-> {}, size |-> 0]

\* the courts scrape_courts is asked for: Court 12 is on the second page of
\* the list unless the page size is 20
ScrapeCourts == CourtNames \cup {"Court 12"}

\* court_name in ["Court 12", "Court 13"]
NeedsPageSize20(court_name) == court_name \in {"Court 12", "Court 13"}

\* _ensure_page_size_20(page) where the control can be set: the list shows 20
\* results, a page without the control is left as it is
EnsureListSize(pg) == IF pg.kind = "list" THEN [pg EXCEPT !.size = WantedPageSize] ELSE pg

\* the schedule page of court c: title, heading and body name c and no other court
DetailPage(c, urlok) ==
    [kind |-> "detail", shown |-> c, courtEls |-> 1, schedule |-> TRUE,
     urlok |-> urlok, title |-> CourtDigits(c), headings |-> {CourtDigits(c)},
     body |-> <<CourtDigits(c)>>, url |-> NoText, broken |-> {}, size |-> 0]

ScrapePages ==
    {ListPage, BlankPage}
        \cup {DetailPage(c, u) : c \in CourtNames, u \in BOOLEAN}

\* f"{court_num:>02}" with court_num = str(int(match.group(1))): the digits
\* of the identifier "Court NN" of a label "Court <ds>"
NormalizeLabel(ds) ==
    LET court_num == NumDigits(CourtNumber(ds)) IN
    IF Len(court_num) < 2 THEN <<0>> \o court_num ELSE court_num

\* mutant: every label is kept, also when its identifier is in the list
KeepEvery(all_courts, court_label) == FALSE

\* court_label in all_courts
AlreadyFound(all_courts, court_label) ==
    \E n \in 1..Len(all_courts) : all_courts[n] = court_label

RECURSIVE CollectLabels(_, _)
\* for el in court_elements: the identifiers not yet in all_courts are appended
CollectLabels(labels, all_courts) ==
    IF labels = <<>> THEN all_courts
    ELSE CollectLabels(Tail(labels),
                       IF AlreadyFound(all_courts, NormalizeLabel(Head(labels)))
                       THEN all_courts
                       ELSE Append(all_courts, NormalizeLabel(Head(labels))))

RECURSIVE DiscoverAttempts(_, _)
\* for attempt in range(max_attempts): attempts[n] are the labels found
\* by the n-th query; the loop ends early once 10 courts are known
DiscoverAttempts(attempts, all_courts) ==
    IF attempts = <<>> THEN all_courts
    ELSE LET found == CollectLabels(Head(attempts), all_courts) IN
         IF Head(attempts) # <<>> /\ Len(found) >= VisibleCourts THEN found
         ELSE DiscoverAttempts(Tail(attempts), found)

\* key=lambda x: int(re.search(r'\d+', x).group())
NumericKey(ds) == DigitsValue(ds)

RECURSIVE InsertLabel(_, _)
InsertLabel(sorted, ds) ==
    IF sorted = <<>> THEN <<ds>>
    ELSE IF NumericKey(Head(sorted)) <= NumericKey(ds)
         THEN <<Head(sorted)>> \o InsertLabel(Tail(sorted), ds)
         ELSE <<ds>> \o sorted

RECURSIVE SortLabels(_, _)
\* sorted(all_courts, key=...)
SortLabels(all_courts, acc) ==
    IF all_courts = <<>> THEN acc
    ELSE SortLabels(Tail(all_courts), InsertLabel(acc, Head(all_courts)))

\* the discovered identifiers, as digits, of the labels the queries found
DiscoverDigits(attempts) == SortLabels(DiscoverAttempts(attempts, <<>>), <<>>)

\* the court name "Court NN" of the digits NN
CourtOfDigits(ds) == CHOOSE c \in CourtNames : CourtDigits(c) = ds

\* court_names of a list page that shows the same labels at each query
Discover(labels) ==
    LET found == DiscoverDigits(<<labels, labels, labels>>) IN
    [n \in 1..Len(found) |-> CourtOfDigits(found[n])]

MaxLabels == 4

\* the labels a list page may show: "Court 1", "Court 01", "Court 2",
\* "Court 02", "Court 10", "Court 12"
LabelDigits == {<<1>>, <<0, 1>>, <<2>>, <<0, 2>>, <<1, 0>>, <<1, 2>>}

DiscoverIdle == dlabels = <<>> /\ dcourts = <<>> /\ dpc = "idle"

DiscoverInit == dlabels = <<>> /\ dcourts = <<>> /\ dpc = "page"

\* the list page shows one more court element
AddLabel ==
    /\ dpc = "page"
    /\ Len(dlabels) < MaxLabels
    /\ \E ds \in LabelDigits : dlabels' = Append(dlabels, ds)
    /\ UNCHANGED <<dcourts, dpc, gvars, evars, vvars, svars, nvars, cvars, zvars, uvars>>

\* the discovery runs; the first query may find the page still loading
\* (only the first k elements), the later ones find all of them
RunDiscovery ==
    /\ dpc = "page"
    /\ \E k \in 0..Len(dlabels) :
          dcourts' = DiscoverDigits(<<SubSeq(dlabels, 1, k), dlabels, dlabels>>)
    /\ dpc' = "done"
    /\ UNCHANGED <<dlabels, gvars, evars, vvars, svars, nvars, cvars, zvars, uvars>>

\* the court_names argument: None or empty (discover the courts), or an
\* override list, used as it is given
OverrideLists ==
    {<<>>, <<"Court 02", "Court 02">>, <<"Court 12">>}

\* the labels of the court elements of the list page, as digit strings:
\* "Court 01", "Court 1", "Court 02", "Court 10"
DisplayedLabels ==
    {<<>>, << <<0, 1>> >>, << <<0, 2>>, <<1>> >>, << <<1, 0>>, <<0, 2>>, <<0, 1>>, <<1>> >>}

\* history of one iteration: how the wait and the final verification ended,
\* whether _scrape_court_schedule was called, results and len(results) at its
\* start, which failure ended it ("button", "click", "timeout", "final",
\* "raised", "list"), results after the scrape, and how page.go_back() and
\* the direct navigation ended
NewIter(res) ==
    [wait |-> "none", final |-> "none", scraped |-> FALSE, base |-> Len(res),
     before |-> res, fail |-> "none", collected |-> <<>>,
     back |-> "none", fallback |-> "none", callback |-> "none",
     button_elapsed |-> 0]

\* history of the run: attempts counts, per court name, the clicks on its
\* Choose button that went through; list_lost is set once the list page
\* could not be restored; entered counts the iterations that passed the
\* processed_courts check, progress lists the calls of progress_callback,
\* closes counts the calls of browser.close(), error is the exception that
\* left scrape_courts
NoHistory ==
    [attempts |-> [c \in ScrapeCourts |-> 0], list_lost |-> FALSE, entered |-> 0,
     progress |-> <<>>, closes |-> 0, error |-> "none"]

\* progress_callback(current=..., total=..., message=..., court_name=...)
ProgressCall(current, total, court_name) ==
    [current |-> current, total |-> total, court_name |-> court_name]

\* mutant: an exception of progress_callback leaves scrape_courts
AfterCallbackAbort(raised) == IF raised THEN "raised" ELSE "find_button"

\* except Exception: pass
AfterCallback(raised) == "find_button"

\* after the loop: the last progress_callback, then finally: browser.close()
Finish(h, total) ==
    [h EXCEPT !.progress = Append(@, ProgressCall(total, total, "None")),
              !.closes = @ + 1]

\* mutant: an exception leaves scrape_courts with the browser open
AbortNoClose(h, error) == [h EXCEPT !.error = error]

\* the exception error leaves scrape_courts: finally: browser.close()
Abort(h, error) == [h EXCEPT !.closes = @ + 1, !.error = error]

\* mutant: a failure of one court ends the run
AfterFailureAbort(kind) == "done"

\* continue: the failure of one court ends its iteration only
AfterFailure(kind) == "loop"

\* mutant: no direct navigation after a failed go_back
AfterGoBackNoFallback(ok) == IF ok THEN "loop" ELSE "done"

\* if not navigation_success: the direct navigation (method 2)
AfterGoBack(ok) == IF ok THEN "loop" ELSE "fallback"

\* mutant: the loop goes on after both navigations failed
AfterFallbackNoBreak(ok) == "loop"

\* if not navigation_success: break
AfterFallback(ok) == IF ok THEN "loop" ELSE "done"

NoVerify == [court |-> "", shown |-> "", ok |-> FALSE]

\* the record of a call of _verify_court_on_page on the current page
VerifyRecord(pg, court_name) ==
    [court |-> court_name, shown |-> pg.shown, ok |-> VerifyCourtOnPage(pg, court_name)]

CurrentCourt == court_names[courtIdx]

ScrapeIdle ==
    /\ pc = "idle" /\ court_names = <<>> /\ courtIdx = 0 /\ page = BlankPage
    /\ elapsed = 0 /\ results = <<>> /\ processed_courts = {}
    /\ iter = NewIter(<<>>) /\ lastVerify = NoVerify /\ hist = NoHistory

\* the state after browser.new_page(): nothing is loaded, court_names is the argument
ScrapeInit ==
    /\ pc = "start" /\ court_names \in OverrideLists /\ courtIdx = 0 /\ page = BlankPage
    /\ elapsed = 0 /\ results = <<>> /\ processed_courts = {}
    /\ iter = NewIter(<<>>) /\ lastVerify = NoVerify /\ hist = NoHistory

\* page.goto(base_url) succeeds: the home page is open
OpenSite ==
    /\ pc = "start"
    /\ pc' = "book"
    /\ UNCHANGED <<hist, court_names, courtIdx, page, elapsed, results, processed_courts, iter,
                   lastVerify, gvars, evars, vvars, nvars, ovars>>

\* page.goto(base_url) raises: no handler but finally
OpenSiteRaises ==
    /\ pc = "start"
    /\ pc' = "raised"
    /\ hist' = Abort(hist, "goto")
    /\ UNCHANGED <<court_names, courtIdx, page, elapsed, results, processed_courts, iter,
                   lastVerify, gvars, evars, vvars, nvars, ovars>>

\* one of the 'Book a Court' selectors is clicked; the court list loads or
\* not (_wait_for_court_list_loaded returns True in both cases)
ClickBookACourt ==
    /\ pc = "book"
    /\ page' \in {ListPage, BlankPage}
    /\ pc' = "discover"
    /\ UNCHANGED <<hist, court_names, courtIdx, elapsed, results, processed_courts, iter,
                   lastVerify, gvars, evars, vvars, nvars, ovars>>

\* no selector could be clicked: RuntimeError, logged and raised again
ClickBookACourtFails ==
    /\ pc = "book"
    /\ pc' = "raised"
    /\ hist' = Abort(hist, "Could not find 'Book a Court' button")
    /\ UNCHANGED <<court_names, courtIdx, page, elapsed, results, processed_courts, iter,
                   lastVerify, gvars, evars, vvars, nvars, ovars>>

\* if not court_names: the page size is set to 20 and the courts are
\* discovered from the labels of the list page; if not court_names: raise RuntimeError("No courts found ...")
DiscoverCourts ==
    /\ pc = "discover"
    /\ \E labels \in DisplayedLabels :
          court_names' = IF court_names # <<>> THEN court_names
                         ELSE IF page.kind = "list" THEN Discover(labels)
                         ELSE <<>>
    /\ page' = IF court_names = <<>> THEN EnsureListSize(page) ELSE page
    /\ pc' = IF court_names' = <<>> THEN "raised" ELSE "loop"
    /\ hist' = IF court_names' = <<>>
                THEN Abort(hist, "No courts found on booking page") ELSE hist
    /\ UNCHANGED <<courtIdx, elapsed, results, processed_courts, iter,
                   lastVerify, gvars, evars, vvars, nvars, ovars>>

\* for court_name in court_names: the next name, skipped when already
\* processed; the page size is ensured first for Court 12 and Court 13
NextCourt ==
    /\ pc = "loop"
    /\ courtIdx < Len(court_names)
    /\ courtIdx' = courtIdx + 1
    /\ IF court_names[courtIdx + 1] \in processed_courts
       THEN /\ pc' = "loop"
            /\ iter' = NewIter(results)
            /\ hist' = hist
            /\ page' = page
       ELSE \E raised \in BOOLEAN :
            /\ pc' = AfterCallback(raised)
            /\ page' = IF NeedsPageSize20(court_names[courtIdx + 1])
                       THEN EnsureListSize(page) ELSE page
            /\ iter' = [NewIter(results) EXCEPT !.callback = IF raised THEN "raised" ELSE "ok"]
            /\ hist' = [hist EXCEPT
                          !.entered = @ + 1,
                          !.progress = Append(@, ProgressCall(Cardinality(processed_courts) + 1,
                                                              Len(court_names),
                                                              court_names[courtIdx + 1]))]
    /\ UNCHANGED <<court_names, elapsed, results, processed_courts, lastVerify,
                   gvars, evars, vvars, nvars, ovars>>

\* the list is not shown (fewer than 3 court elements) and going back to it fails: continue
ListReopenFails ==
    /\ pc = "find_button"
    /\ page.courtEls < MinListCourts
    /\ page' \in {page, BlankPage}
    /\ pc' = "loop"
    /\ iter' = [iter EXCEPT !.fail = "list"]
    /\ hist' = [hist EXCEPT !.list_lost = TRUE]
    /\ UNCHANGED <<court_names, courtIdx, elapsed, results, processed_courts,
                   lastVerify, gvars, evars, vvars, nvars, ovars>>

\* the list is not shown and goto(base_url) + click 'Book a Court' opens it again
ListReopened ==
    /\ pc = "find_button"
    /\ page.courtEls < MinListCourts
    /\ page' = ListPage
    /\ UNCHANGED <<hist, pc, court_names, courtIdx, elapsed, results, processed_courts, iter,
                   lastVerify, gvars, evars, vvars, nvars, ovars>>

\* button_elapsed = (time.time() * 1000) - button_start_time, after
\* page.wait_for_timeout(button_check_interval)
NextButtonElapsedRestarts(button_elapsed) ==
    (button_elapsed + ButtonCheckInterval) % MaxButtonWait

NextButtonElapsed(button_elapsed) == button_elapsed + ButtonCheckInterval

\* one pass of the while loop of the button search that finds no button
ButtonPoll ==
    /\ pc = "find_button"
    /\ page.courtEls >= MinListCourts
    /\ iter.button_elapsed < MaxButtonWait
    /\ iter' = [iter EXCEPT !.button_elapsed = NextButtonElapsed(@)]
    /\ UNCHANGED <<hist, pc, court_names, courtIdx, page, elapsed, results, processed_courts,
                   lastVerify, gvars, evars, vvars, nvars, ovars>>

\* the Choose button of the court is found within the button wait;
\* button_elapsed is not read after the loop
ButtonFound ==
    /\ pc = "find_button"
    /\ page.courtEls >= MinListCourts
    /\ iter.button_elapsed < MaxButtonWait
    /\ iter' = [iter EXCEPT !.button_elapsed = 0]
    /\ pc' = "click"
    /\ UNCHANGED <<hist, court_names, courtIdx, page, elapsed, results, processed_courts,
                   lastVerify, gvars, evars, vvars, nvars, ovars>>

\* no Choose button after the button wait: the court is marked processed, continue
ButtonNotFound ==
    /\ pc = "find_button"
    /\ page.courtEls >= MinListCourts
    /\ iter.button_elapsed >= MaxButtonWait
    /\ processed_courts' = processed_courts \cup {CurrentCourt}
    /\ iter' = [iter EXCEPT !.fail = "button"]
    /\ pc' = AfterFailure("button")
    /\ UNCHANGED <<hist, court_names, courtIdx, page, elapsed, results,
                   lastVerify, gvars, evars, vvars, nvars, ovars>>

\* the click (or the JavaScript click) goes through; the site starts to navigate
ClickOk ==
    /\ pc = "click"
    /\ page' \in ScrapePages \cup {DetailPage(CurrentCourt, TRUE)}
    /\ elapsed' = 0
    /\ pc' = "wait_schedule"
    /\ hist' = [hist EXCEPT !.attempts[CurrentCourt] = @ + 1]
    /\ UNCHANGED <<court_names, courtIdx, results, processed_courts, iter,
                   lastVerify, gvars, evars, vvars, nvars, ovars>>

\* both click attempts fail: continue
ClickFails ==
    /\ pc = "click"
    /\ iter' = [iter EXCEPT !.fail = "click"]
    /\ pc' = AfterFailure("click")
    /\ UNCHANGED <<hist, court_names, courtIdx, page, elapsed, results, processed_courts,
                   lastVerify, gvars, evars, vvars, nvars, ovars>>

\* the site shows another page while the scraper waits
PageChanges ==
    /\ pc \in {"wait_schedule", "final_verify", "scrape_verify", "scrape_cells"}
    /\ page' \in ScrapePages \ {page}
    /\ UNCHANGED <<hist, pc, court_names, courtIdx, elapsed, results, processed_courts, iter,
                   lastVerify, gvars, evars, vvars, nvars, ovars>>

\* _wait_for_schedule_page, steps 1 and 2 of a poll: not the list, a schedule is there
PollReachesVerify(pg) == pg.courtEls <= ListThreshold /\ pg.schedule

\* _wait_for_schedule_page: the poll returns True
PollConfirms(pg, court_name) ==
    /\ PollReachesVerify(pg)
    /\ VerifyCourtOnPage(pg, court_name)
    /\ pg.urlok

\* mutant: a wait that timed out goes on to the final verification
AfterWaitNoSkip(ok) == "final_verify"

\* if not schedule_loaded: continue
AfterWait(ok) == IF ok THEN "final_verify" ELSE "loop"

\* if not final_verification: continue
AfterFinalVerify(ok) == IF ok THEN "scrape_verify" ELSE "loop"

\* one pass of the while loop of _wait_for_schedule_page; elapsed is a local
\* of the call and ends with it
WaitPoll ==
    /\ pc = "wait_schedule"
    /\ elapsed < MaxWait
    /\ lastVerify' = IF PollReachesVerify(page) THEN VerifyRecord(page, CurrentCourt)
                     ELSE lastVerify
    /\ IF PollConfirms(page, CurrentCourt)
       THEN /\ iter' = [iter EXCEPT !.wait = "ok"]
            /\ pc' = AfterWait(TRUE)
            /\ elapsed' = 0
       ELSE /\ elapsed' = elapsed + CheckInterval
            /\ UNCHANGED <<pc, iter>>
    /\ UNCHANGED <<hist, court_names, courtIdx, page, results, processed_courts,
                   gvars, evars, vvars, nvars, ovars>>

\* the while loop ends with elapsed >= max_wait: return False
WaitTimeout ==
    /\ pc = "wait_schedule"
    /\ elapsed >= MaxWait
    /\ iter' = [iter EXCEPT !.wait = "timeout", !.fail = "timeout"]
    /\ pc' = AfterWait(FALSE)
    /\ UNCHANGED <<hist, court_names, courtIdx, page, elapsed, results, processed_courts,
                   lastVerify, gvars, evars, vvars, nvars, ovars>>

\* final_verification = await _verify_court_on_page(page, court_name)
FinalVerify ==
    /\ pc = "final_verify"
    /\ lastVerify' = VerifyRecord(page, CurrentCourt)
    /\ iter' = IF VerifyCourtOnPage(page, CurrentCourt)
               THEN [iter EXCEPT !.final = "ok"]
               ELSE [iter EXCEPT !.final = "failed", !.fail = "final"]
    /\ pc' = AfterFinalVerify(VerifyCourtOnPage(page, CurrentCourt))
    /\ UNCHANGED <<hist, court_names, courtIdx, page, elapsed, results, processed_courts,
                   gvars, evars, vvars, nvars, ovars>>

\* _scrape_court_schedule is called; its own verification of the page
ScrapeVerify ==
    /\ pc = "scrape_verify"
    /\ lastVerify' = VerifyRecord(page, CurrentCourt)
    /\ iter' = [iter EXCEPT !.scraped = TRUE, !.collected = results]
    /\ IF VerifyCourtOnPage(page, CurrentCourt)
       THEN /\ pc' = "scrape_cells"
            /\ UNCHANGED processed_courts
       ELSE /\ pc' = "go_back"
            /\ processed_courts' = processed_courts \cup {CurrentCourt}
    /\ UNCHANGED <<hist, court_names, courtIdx, page, elapsed, results, gvars, evars, vvars, nvars, ovars>>

\* the dicts read from the page: court is court_name; src is the court whose
\* schedule the page displayed when they were read
PageEntries(pg, court_name, k) ==
    [n \in 1..k |-> [court |-> court_name, src |-> pg.shown, n |-> n]]

\* mutant: the entries of a court are put in front of the list
ExtendFront(lst, court_entries) == court_entries \o lst

\* results.extend(court_entries)
Extend(lst, court_entries) == lst \o court_entries

\* the cells of the page are read; results.extend(court_entries)
ScrapeCells ==
    /\ pc = "scrape_cells"
    /\ \E k \in 0..MaxPageSlots :
          /\ (~page.schedule => k = 0)
          /\ results' = Extend(results, PageEntries(page, CurrentCourt, k))
          /\ iter' = [iter EXCEPT !.collected = Extend(results, PageEntries(page, CurrentCourt, k))]
    /\ processed_courts' = processed_courts \cup {CurrentCourt}
    /\ pc' = "go_back"
    /\ UNCHANGED <<hist, court_names, courtIdx, page, elapsed, lastVerify,
                   gvars, evars, vvars, nvars, ovars>>

\* remaining_courts and remaining_courts[0] in ["Court 12", "Court 13"]
NextNeedsPageSize20 ==
    \E n \in 1..Len(court_names) :
        /\ court_names[n] \notin processed_courts
        /\ \A m \in 1..(n - 1) : court_names[m] \in processed_courts
        /\ NeedsPageSize20(court_names[n])

\* page.go_back() brings the list page; the page size is ensured when the
\* first remaining court is Court 12 or Court 13
GoBackOk ==
    /\ pc = "go_back"
    /\ page' = IF NextNeedsPageSize20 THEN EnsureListSize(ListPage) ELSE ListPage
    /\ iter' = [iter EXCEPT !.back = "ok"]
    /\ pc' = AfterGoBack(TRUE)
    /\ UNCHANGED <<hist, court_names, courtIdx, elapsed, results, processed_courts,
                   lastVerify, gvars, evars, vvars, nvars, ovars>>

\* the URL is unchanged after go_back, or fewer than 3 courts are visible
GoBackFails ==
    /\ pc = "go_back"
    /\ page' \in {page, BlankPage}
    /\ iter' = [iter EXCEPT !.back = "failed"]
    /\ pc' = AfterGoBack(FALSE)
    /\ UNCHANGED <<hist, court_names, courtIdx, elapsed, results, processed_courts,
                   lastVerify, gvars, evars, vvars, nvars, ovars>>

\* goto(base_url) and the click on 'Book a Court' succeed; the loop goes on
\* whether or not the court list was seen to load
FallbackOk ==
    /\ pc = "fallback"
    /\ page' \in {ListPage, BlankPage}
    /\ iter' = [iter EXCEPT !.fallback = "ok"]
    /\ pc' = AfterFallback(TRUE)
    /\ UNCHANGED <<hist, court_names, courtIdx, elapsed, results, processed_courts,
                   lastVerify, gvars, evars, vvars, nvars, ovars>>

\* the direct navigation fails too: break
FallbackFails ==
    /\ pc = "fallback"
    /\ iter' = [iter EXCEPT !.fallback = "failed"]
    /\ hist' = IF AfterFallback(FALSE) = "done"
                THEN Finish([hist EXCEPT !.list_lost = TRUE], Len(court_names))
                ELSE [hist EXCEPT !.list_lost = TRUE]
    /\ pc' = AfterFallback(FALSE)
    /\ UNCHANGED <<court_names, courtIdx, page, elapsed, results, processed_courts,
                   lastVerify, gvars, evars, vvars, nvars, ovars>>

\* a browser call of the loop body raises: the court is marked processed, continue
IterationRaises ==
    /\ pc \in {"wait_schedule", "final_verify", "scrape_verify"}
    /\ processed_courts' = processed_courts \cup {CurrentCourt}
    /\ iter' = [iter EXCEPT !.fail = "raised"]
    /\ pc' = AfterFailure("raised")
    /\ UNCHANGED <<hist, court_names, courtIdx, page, elapsed, results,
                   lastVerify, gvars, evars, vvars, nvars, ovars>>

\* the for loop is exhausted: return results
LoopEnd ==
    /\ pc = "loop"
    /\ courtIdx = Len(court_names)
    /\ pc' = "done"
    /\ hist' = Finish(hist, Len(court_names))
    /\ UNCHANGED <<court_names, courtIdx, page, elapsed, results, processed_courts, iter,
                   lastVerify, gvars, evars, vvars, nvars, ovars>>

Next ==
    \/ OpenSite \/ OpenSiteRaises \/ ClickBookACourt \/ ClickBookACourtFails \/ DiscoverCourts
    \/ NextCourt \/ ListReopenFails \/ ListReopened \/ ButtonPoll \/ ButtonFound
    \/ ButtonNotFound
    \/ ClickOk \/ ClickFails \/ PageChanges \/ WaitPoll \/ WaitTimeout \/ FinalVerify
    \/ ScrapeVerify \/ ScrapeCells \/ GoBackOk \/ GoBackFails \/ FallbackOk
    \/ FallbackFails \/ IterationRaises \/ LoopEnd

\* the steps scrape_courts takes itself
ScraperStep ==
    \/ OpenSite \/ OpenSiteRaises \/ ClickBookACourt \/ ClickBookACourtFails \/ DiscoverCourts
    \/ NextCourt \/ ListReopenFails \/ ListReopened \/ ButtonPoll \/ ButtonFound
    \/ ButtonNotFound \/ ClickOk \/ ClickFails \/ WaitPoll \/ WaitTimeout \/ FinalVerify
    \/ ScrapeVerify \/ ScrapeCells \/ GoBackOk \/ GoBackFails \/ FallbackOk
    \/ FallbackFails \/ IterationRaises \/ LoopEnd

(***************************************************************************)
(* scraper.py: process_notifications                                       *)
(*                                                                         *)
(* A slot's time string is <<>> for "" and <<date, hh, period>> otherwise; *)
(* period "" stands for the 24-hour form "YYYY-MM-DD HH:MM".  Day 0 is     *)
(* 2025-12-17, a Wednesday.  A subscription is a row [day_of_week,         *)
(* start_hour, end_hour, chat_id] as render_alerts_section inserts it.     *)
(* sends records each call of requests.post: the positions of the slot     *)
(* and of the subscription, the chat_id, and how the call ended.           *)
(***************************************************************************)
MaxNotifySlots == 2    \* longest new_slots
MaxSubs == 2           \* most rows of the subscriptions table

NotifyTimes ==
    {<<>>, <<0, 13, "PM">>, <<0, 7, "AM">>, <<0, 9, "">>, <<0, 10, "PM">>}

NotifySlots == {[court |-> "Court 01", time |-> t, link |-> LinkOf("Court 01")] : t \in NotifyTimes}

SubscriptionRows ==
    {[day_of_week |-> "Wednesday", start_hour |-> 8, end_hour |-> 22, chat_id |-> "A"],
     [day_of_week |-> "Wednesday", start_hour |-> 9, end_hour |-> 9, chat_id |-> "B"],
     [day_of_week |-> "Thursday", start_hour |-> 0, end_hour |-> 23, chat_id |-> "A"]}

\* how requests.post(...) followed by raise_for_status() ends
SendOutcomes == {"sent", "http_error", "raised"}

\* datetime.strptime with "%Y-%m-%d %I:%M %p", then with "%Y-%m-%d %H:%M": some format parses
StrptimeOk(value) ==
    /\ value # <<>>
    /\ \/ value[3] \in {"AM", "PM"} /\ value[2] \in 1..12
       \/ value[3] = "" /\ value[2] \in 0..23

\* dt_object.hour
StrptimeHour(value) == Hour24(value[2], value[3])

\* dt_object.strftime("%A")
DayName(value) ==
    <<"Wednesday", "Thursday", "Friday", "Saturday", "Sunday", "Monday", "Tuesday">>[(value[1] % 7) + 1]

\* mutant: the end hour is excluded
SubMatchesEndExclusive(slot, sub) ==
    /\ DayName(slot.time) = sub.day_of_week
    /\ sub.start_hour <= StrptimeHour(slot.time)
    /\ StrptimeHour(slot.time) < sub.end_hour

\* day_name == sub_day and start_hour <= hour <= end_hour
SubMatches(slot, sub) ==
    /\ DayName(slot.time) = sub.day_of_week
    /\ sub.start_hour <= StrptimeHour(slot.time)
    /\ StrptimeHour(slot.time) <= sub.end_hour

\* mutant: a failed send ends the pass
AfterSendAbort(outcome, next_pc) == IF outcome = "sent" THEN next_pc ELSE "done"

\* except Exception around the send: the failure is logged, the loops go on
AfterSend(outcome, next_pc) == next_pc

SeqsUpToLen(S, n) == UNION {[1..k -> S] : k \in 0..n}

NotifyIdle ==
    /\ new_slots = <<>> /\ subscriptions = <<>> /\ have_client = FALSE /\ bot_token = FALSE
    /\ npc = "idle" /\ nslot = 0 /\ nsub = 0 /\ sends = <<>>

NotifyInit ==
    /\ new_slots \in SeqsUpToLen(NotifySlots, MaxNotifySlots)
    /\ subscriptions \in SeqsUpToLen(SubscriptionRows, MaxSubs)
    /\ have_client \in BOOLEAN /\ bot_token \in BOOLEAN
    /\ npc = "start" /\ nslot = 0 /\ nsub = 0 /\ sends = <<>>

\* no client, no BOT_TOKEN, or no subscription row: return
NotifyNothingToDo ==
    /\ npc = "start"
    /\ ~have_client \/ ~bot_token \/ subscriptions = <<>>
    /\ npc' = "done"
    /\ UNCHANGED <<new_slots, subscriptions, have_client, bot_token, nslot, nsub, sends,
                   gvars, evars, vvars, svars, ovars>>

\* the select on the subscriptions table raises: the outer except logs it
NotifyFetchRaises ==
    /\ npc = "start"
    /\ have_client /\ bot_token
    /\ npc' = "done"
    /\ UNCHANGED <<new_slots, subscriptions, have_client, bot_token, nslot, nsub, sends,
                   gvars, evars, vvars, svars, ovars>>

\* the subscriptions are fetched; the loop over new_slots begins
NotifyFetched ==
    /\ npc = "start"
    /\ have_client /\ bot_token /\ subscriptions # <<>>
    /\ npc' = "loop" /\ nslot' = 1 /\ nsub' = 1
    /\ UNCHANGED <<new_slots, subscriptions, have_client, bot_token, sends,
                   gvars, evars, vvars, svars, ovars>>

\* a slot whose time is empty or parses with neither format: continue
NotifySkipSlot ==
    /\ npc = "loop"
    /\ nslot <= Len(new_slots)
    /\ ~StrptimeOk(new_slots[nslot].time)
    /\ nslot' = nslot + 1 /\ nsub' = 1
    /\ UNCHANGED <<new_slots, subscriptions, have_client, bot_token, npc, sends,
                   gvars, evars, vvars, svars, ovars>>

\* one pass of the loop over subscriptions for the current slot
NotifyPair ==
    /\ npc = "loop"
    /\ nslot <= Len(new_slots)
    /\ StrptimeOk(new_slots[nslot].time)
    /\ \E outcome \in SendOutcomes :
          LET matches == SubMatches(new_slots[nslot], subscriptions[nsub]) IN
          /\ sends' = IF matches
                      THEN Append(sends, [slot |-> nslot, sub |-> nsub,
                                          chat_id |-> subscriptions[nsub].chat_id,
                                          outcome |-> outcome])
                      ELSE sends
          /\ (~matches => outcome = "sent")
          /\ npc' = IF matches THEN AfterSend(outcome, "loop") ELSE "loop"
    /\ IF nsub < Len(subscriptions)
       THEN nsub' = nsub + 1 /\ nslot' = nslot
       ELSE nsub' = 1 /\ nslot' = nslot + 1
    /\ UNCHANGED <<new_slots, subscriptions, have_client, bot_token,
                   gvars, evars, vvars, svars, ovars>>

\* the loop over new_slots is exhausted
NotifyReturn ==
    /\ npc = "loop"
    /\ nslot > Len(new_slots)
    /\ npc' = "done"
    /\ UNCHANGED <<new_slots, subscriptions, have_client, bot_token, nslot, nsub, sends,
                   gvars, evars, vvars, svars, ovars>>

NotifyNext ==
    \/ NotifyNothingToDo \/ NotifyFetchRaises \/ NotifyFetched
    \/ NotifySkipSlot \/ NotifyPair \/ NotifyReturn

(***************************************************************************)
(* scraper.py: save_cache, clean_and_upload_to_supabase, load_cache        *)
(*                                                                         *)
(* A slot is [court, time] with the time strings of process_notifications. *)
(* A row of court_slots is [court_name, start_time, updated_at]:           *)
(* start_time is <<date, hour>> (the ISO string), updated_at is 0 for a    *)
(* row of an earlier run and 1 for a row of the save that runs.  One save  *)
(* runs on a store an earlier run has left, and one load_cache of another  *)
(* process runs beside it.                                                 *)
(***************************************************************************)
MaxCacheSlots == 2     \* longest data list

\* an unparseable time, a 12-hour one and a 24-hour one
CacheTimes == {<<0, 13, "PM">>, <<0, 7, "AM">>, <<0, 19, "">>}

CacheSlots == {[court |-> "Court 01", time |-> t] : t \in CacheTimes}

CacheLists == SeqsUpToLen(CacheSlots, MaxCacheSlots)

\* the row built for an item whose time one of the two formats parses
CleanRow(item, run) ==
    [court_name |-> item.court,
     start_time |-> <<item.time[1], StrptimeHour(item.time)>>,
     updated_at |-> run]

RECURSIVE CleanRows(_, _)
\* clean_rows: items with an empty or unparseable time are left out
CleanRows(json_data, run) ==
    IF json_data = <<>> THEN <<>>
    ELSE IF StrptimeOk(Head(json_data).time)
         THEN <<CleanRow(Head(json_data), run)>> \o CleanRows(Tail(json_data), run)
         ELSE CleanRows(Tail(json_data), run)

\* start_time.strftime("%Y-%m-%d %I:%M %p")
Format12(start_time) ==
    <<start_time[1],
      IF start_time[2] % 12 = 0 THEN 12 ELSE start_time[2] % 12,
      IF start_time[2] < 12 THEN "AM" ELSE "PM">>

\* the conversion of the rows back to the JSON format
ConvertRows(rows) ==
    [n \in 1..Len(rows) |-> [court |-> rows[n].court_name, time |-> Format12(rows[n].start_time)]]

\* the JSON file: not there, not valid JSON (empty or cut short), or a list
NoFile == [state |-> "missing", data |-> <<>>]
InvalidFile == [state |-> "invalid", data |-> <<>>]
ValidFile(d) == [state |-> "valid", data |-> d]

\* history of the save: whether clean_and_upload_to_supabase was called and
\* had a client, how write_text, the delete and the insert ended, and the
\* data the earlier run stored
NoSaveHistory(stored) ==
    [upload_called |-> FALSE, client |-> FALSE, write |-> "none", delete |-> "none",
     insert |-> "none", before |-> stored]

\* the file that was not read
Unread == [state |-> "unread", data |-> <<>>]

\* what load_cache read (primary: "none", "unavailable", "raised", "empty"
\* or "rows"; rows: the rows selected; json: the file as it was read) and
\* what it returned
NoLoad == [data |-> <<>>, source |-> "", primary |-> "none", rows |-> <<>>, json |-> Unread]

CacheIdle ==
    /\ table = <<>> /\ file = NoFile /\ sdata = <<>> /\ cpc = "idle"
    /\ chist = NoSaveHistory(<<>>) /\ lpc = "idle" /\ loaded = NoLoad

\* the stores as an earlier run left them: nothing yet, the JSON file only
\* (no client), or the file and the table
CacheInit ==
    /\ \E old \in CacheLists :
         /\ file \in (IF old = <<>> THEN {NoFile} ELSE {}) \cup {ValidFile(old)}
         /\ table \in IF file = NoFile THEN {<<>>} ELSE {<<>>, CleanRows(old, 0)}
    /\ sdata \in CacheLists
    /\ cpc = "start"
    /\ chist = NoSaveHistory(file.data)
    /\ lpc = "select"
    /\ loaded = NoLoad

notcache == <<gvars, evars, vvars, svars, nvars, dvars, zvars, uvars>>

\* path.write_text: the file is opened for writing, which empties it
SaveOpenFile ==
    /\ cpc = "start"
    /\ file' = InvalidFile
    /\ cpc' = "write"
    /\ UNCHANGED <<table, sdata, chist, lpc, loaded, notcache>>

\* path.write_text returns: the file holds json.dumps(data)
SaveWriteOk ==
    /\ cpc = "write"
    /\ file' = ValidFile(sdata)
    /\ chist' = [chist EXCEPT !.write = "ok"]
    /\ cpc' = "upload"
    /\ UNCHANGED <<table, sdata, lpc, loaded, notcache>>

\* path.write_text raises, at the open or while writing: the exception
\* leaves save_cache
SaveWriteRaises ==
    /\ cpc \in {"start", "write"}
    /\ chist' = [chist EXCEPT !.write = "raised"]
    /\ cpc' = "raised"
    /\ UNCHANGED <<table, file, sdata, lpc, loaded, notcache>>

\* clean_and_upload_to_supabase: no client, return False
UploadNoClient ==
    /\ cpc = "upload"
    /\ chist' = [chist EXCEPT !.upload_called = TRUE]
    /\ cpc' = "returned"
    /\ UNCHANGED <<table, file, sdata, lpc, loaded, notcache>>

\* clean_and_upload_to_supabase: there is a client, clean_rows is built
UploadClient ==
    /\ cpc = "upload"
    /\ chist' = [chist EXCEPT !.upload_called = TRUE, !.client = TRUE]
    /\ cpc' = "delete"
    /\ UNCHANGED <<table, file, sdata, lpc, loaded, notcache>>

\* if not clean_rows: return False; else the insert
AfterDelete(clean_rows) == IF clean_rows = <<>> THEN "returned" ELSE "insert"

\* the delete of all rows is executed
DeleteOk ==
    /\ cpc = "delete"
    /\ table' = <<>>
    /\ chist' = [chist EXCEPT !.delete = "ok"]
    /\ cpc' = AfterDelete(CleanRows(sdata, 1))
    /\ UNCHANGED <<file, sdata, lpc, loaded, notcache>>

\* the delete raises: "Proceeding with insert anyway"
DeleteFails ==
    /\ cpc = "delete"
    /\ chist' = [chist EXCEPT !.delete = "failed"]
    /\ cpc' = AfterDelete(CleanRows(sdata, 1))
    /\ UNCHANGED <<table, file, sdata, lpc, loaded, notcache>>

\* insert(clean_rows).execute() succeeds: return True
InsertOk ==
    /\ cpc = "insert"
    /\ table' = table \o CleanRows(sdata, 1)
    /\ chist' = [chist EXCEPT !.insert = "ok"]
    /\ cpc' = "returned"
    /\ UNCHANGED <<file, sdata, lpc, loaded, notcache>>

\* the insert raises: logged, return False
InsertFails ==
    /\ cpc = "insert"
    /\ chist' = [chist EXCEPT !.insert = "failed"]
    /\ cpc' = "returned"
    /\ UNCHANGED <<table, file, sdata, lpc, loaded, notcache>>

\* mutant: the rows of the table are returned also when there are none
HasRowsAlways(rows) == TRUE

\* response.data and len(response.data) > 0
HasRows(rows) == Len(rows) > 0

\* load_cache: get_supabase_client() returns None
LoadNoClient ==
    /\ lpc = "select"
    /\ loaded' = [loaded EXCEPT !.primary = "unavailable"]
    /\ lpc' = "file"
    /\ UNCHANGED <<table, file, sdata, cpc, chist, notcache>>

\* load_cache: the select is executed; its rows are returned if there are any
LoadSelect ==
    /\ lpc = "select"
    /\ IF HasRows(table)
       THEN /\ loaded' = [loaded EXCEPT !.primary = "rows", !.rows = table,
                                        !.data = ConvertRows(table), !.source = "supabase"]
            /\ lpc' = "returned"
       ELSE /\ loaded' = [loaded EXCEPT !.primary = "empty"]
            /\ lpc' = "file"
    /\ UNCHANGED <<table, file, sdata, cpc, chist, notcache>>

\* load_cache: the select raises
LoadSelectRaises ==
    /\ lpc = "select"
    /\ loaded' = [loaded EXCEPT !.primary = "raised"]
    /\ lpc' = "file"
    /\ UNCHANGED <<table, file, sdata, cpc, chist, notcache>>

\* load_cache: the fallback to the JSON file
LoadFile ==
    /\ lpc = "file"
    /\ loaded' = IF file.state = "valid"
                 THEN [loaded EXCEPT !.json = file, !.data = file.data, !.source = "json"]
                 ELSE [loaded EXCEPT !.json = file, !.data = <<>>, !.source = "none"]
    /\ lpc' = "returned"
    /\ UNCHANGED <<table, file, sdata, cpc, chist, notcache>>

(***************************************************************************)
(* scraper.py: _ensure_page_size_20                                        *)
(*                                                                         *)
(* The page is the list of its select and combobox elements.  An element   *)
(* is [tag, role, value, option20, broken]: role tells the control of the  *)
(* list's page size from other controls; option20 is "value" when an       *)
(* option has the value "20", "text" when an option only shows the text    *)
(* "20", "none" otherwise; the calls on a broken element raise.            *)
(***************************************************************************)
MaxSelects == 2        \* most elements of a page

SelectElements ==
    {el \in [tag : {"select", "combobox"}, role : {"page_size", "other"},
             value : {"10", "20"}, option20 : {"none", "value", "text"}, broken : BOOLEAN] :
        /\ el.value = "20" => el.option20 = "value"
        /\ el.tag = "combobox" => el.value = "10"}

NoOutcome == [page |-> <<>>, ret |-> FALSE, events |-> 0]

\* mutant: the current value is not looked at
AlreadyTwentyNever(el) == FALSE

\* a select element whose current value is "20"
AlreadyTwenty(el) == el.tag = "select" /\ ~el.broken /\ el.value = "20"

\* an element with an option "20" that is a real select
Settable(el) == ~el.broken /\ el.option20 # "none" /\ el.tag = "select"

\* el.value = '20': the option with that value is selected, no option if
\* there is none
SetTwenty(el) == [el EXCEPT !.value = IF el.option20 = "value" THEN "20" ELSE ""]

\* the page after the call, the value returned and the change events dispatched
EnsurePageSize20(elems) ==
    IF \E n \in 1..Len(elems) : AlreadyTwenty(elems[n])
    THEN [page |-> elems, ret |-> TRUE, events |-> 0]
    ELSE IF \E n \in 1..Len(elems) : Settable(elems[n])
    THEN LET k == CHOOSE n \in 1..Len(elems) :
                    /\ Settable(elems[n])
                    /\ \A m \in 1..(n - 1) : ~Settable(elems[m])
         IN [page |-> [elems EXCEPT ![k] = SetTwenty(@)], ret |-> TRUE, events |-> 1]
    ELSE [page |-> elems, ret |-> FALSE, events |-> 0]

PageSizeIdle ==
    zelems = <<>> /\ zfirst = NoOutcome /\ zsecond = NoOutcome /\ zpc = "idle"

PageSizeInit ==
    zelems = <<>> /\ zfirst = NoOutcome /\ zsecond = NoOutcome /\ zpc = "page"

notpagesize == <<gvars, evars, vvars, svars, nvars, dvars, cvars, uvars>>

\* the page has one more select or combobox element
AddSelect ==
    /\ zpc = "page"
    /\ Len(zelems) < MaxSelects
    /\ \E el \in SelectElements : zelems' = Append(zelems, el)
    /\ UNCHANGED <<zfirst, zsecond, zpc, notpagesize>>

\* await _ensure_page_size_20(page)
CallEnsureOnce ==
    /\ zpc = "page"
    /\ zfirst' = EnsurePageSize20(zelems)
    /\ zpc' = "once"
    /\ UNCHANGED <<zelems, zsecond, notpagesize>>

\* a second call on the page the first call left
CallEnsureTwice ==
    /\ zpc = "once"
    /\ zsecond' = EnsurePageSize20(zfirst.page)
    /\ zpc' = "twice"
    /\ UNCHANGED <<zelems, zfirst, notpagesize>>

(***************************************************************************)
(* upload_json_to_supabase.py: clean_and_upload                            *)
(*                                                                         *)
(* An item is a dict with court and time; time is <<>> for "" and          *)
(* <<date, hh, period>> otherwise, as in process_notifications.  The       *)
(* service accepts every upsert.                                           *)
(***************************************************************************)
MaxUploadItems == 3    \* longest json_data

UploadTimes == {<<>>, <<0, 13, "PM">>, <<0, 7, "AM">>, <<0, 19, "">>}

UploadItems == {[court |-> "Court 01", time |-> t] : t \in UploadTimes}

\* from datetime import datetime: the names the class datetime offers
DatetimeAttributes == {"now", "strptime", "utcnow", "fromisoformat", "today"}

\* datetime.now(datetime.timezone.utc): datetime.timezone is looked up on the
\* class datetime and raises AttributeError when the class has no such name
UpdatedAtRaises == "timezone" \notin DatetimeAttributes

\* the row built for an item, without its updated_at
UploadRow(item) ==
    [court_name |-> item.court, start_time |-> <<item.time[1], StrptimeHour(item.time)>>]

UploadIdle ==
    ujson = <<>> /\ uidx = 0 /\ urows = <<>> /\ upserts = <<>> /\ upc = "idle"

UploadInit ==
    /\ ujson \in SeqsUpToLen(UploadItems, MaxUploadItems)
    /\ uidx = 0 /\ urows = <<>> /\ upserts = <<>> /\ upc = "start"

notupload == <<gvars, evars, vvars, svars, nvars, dvars, cvars, zvars>>

\* supabase = create_client(SUPABASE_URL, SUPABASE_KEY); clean_rows = []
UploadCreateClient ==
    /\ upc = "start"
    /\ upc' = "loop"
    /\ UNCHANGED <<ujson, uidx, urows, upserts, notupload>>

\* if not time_str: continue; if dt_object is None: continue
UploadSkipItem ==
    /\ upc = "loop"
    /\ uidx < Len(ujson)
    /\ ~StrptimeOk(ujson[uidx + 1].time)
    /\ uidx' = uidx + 1
    /\ UNCHANGED <<ujson, urows, upserts, upc, notupload>>

\* row = {...}; clean_rows.append(row), for an item whose time parses
UploadBuildRow ==
    /\ upc = "loop"
    /\ uidx < Len(ujson)
    /\ StrptimeOk(ujson[uidx + 1].time)
    /\ IF UpdatedAtRaises
       THEN /\ upc' = "raised"
            /\ UNCHANGED <<uidx, urows>>
       ELSE /\ urows' = Append(urows, UploadRow(ujson[uidx + 1]))
            /\ uidx' = uidx + 1
            /\ upc' = upc
    /\ UNCHANGED <<ujson, upserts, notupload>>

\* after the loop: "No rows to upload" and return, or one upsert of clean_rows
UploadFinish ==
    /\ upc = "loop"
    /\ uidx = Len(ujson)
    /\ upserts' = IF urows = <<>> THEN upserts ELSE Append(upserts, urows)
    /\ upc' = "returned"
    /\ UNCHANGED <<ujson, uidx, urows, notupload>>

\* discovery, persistence, page size and the upload script are not running
OtherIdle == DiscoverIdle /\ CacheIdle /\ PageSizeIdle /\ UploadIdle

Init == ScrapeInit /\ GroupIdle /\ ExtractIdle /\ VerifyIdle /\ NotifyIdle /\ OtherIdle

Spec == Init /\ [][Next]_vars

\* scrape_courts is one coroutine and every browser call it awaits returns or
\* times out: a step of scrape_courts that stays possible is taken.  The
\* site changes its page when it likes (PageChanges is not forced).
\* Checked for the runs with a court_names argument.
InitTerminates == Init /\ court_names # <<>>

SpecTerminates == InitTerminates /\ [][Next]_vars /\ WF_vars(ScraperStep)

ExtractNext == ProcessSpan \/ SpanRaises \/ ReturnEntries

InitExtract == ExtractInit /\ GroupIdle /\ VerifyIdle /\ ScrapeIdle /\ NotifyIdle /\ OtherIdle

SpecExtract == InitExtract /\ [][ExtractNext]_vars

GroupNext == AddSlot \/ CallFindOneHour \/ CallFindTwoHour \/ CallGroup

InitVerify == VerifyInit /\ GroupIdle /\ ExtractIdle /\ ScrapeIdle /\ NotifyIdle /\ OtherIdle

SpecVerify == InitVerify /\ [][VerifyNext]_vars

InitGroup == GroupInit /\ ExtractIdle /\ VerifyIdle /\ ScrapeIdle /\ NotifyIdle /\ OtherIdle

SpecGroup == InitGroup /\ [][GroupNext]_vars

InitNotify ==
    NotifyInit /\ GroupIdle /\ ExtractIdle /\ VerifyIdle /\ ScrapeIdle /\ OtherIdle

SpecNotify == InitNotify /\ [][NotifyNext]_vars

DiscoverNext == AddLabel \/ RunDiscovery

InitDiscover ==
    /\ DiscoverInit /\ GroupIdle /\ ExtractIdle /\ VerifyIdle /\ ScrapeIdle /\ NotifyIdle
    /\ CacheIdle /\ PageSizeIdle /\ UploadIdle

SpecDiscover == InitDiscover /\ [][DiscoverNext]_vars

CacheNext ==
    \/ SaveOpenFile \/ SaveWriteOk \/ SaveWriteRaises \/ UploadNoClient \/ UploadClient
    \/ DeleteOk \/ DeleteFails \/ InsertOk \/ InsertFails
    \/ LoadNoClient \/ LoadSelect \/ LoadSelectRaises \/ LoadFile

InitCache ==
    /\ CacheInit /\ GroupIdle /\ ExtractIdle /\ VerifyIdle /\ ScrapeIdle /\ NotifyIdle
    /\ DiscoverIdle /\ PageSizeIdle /\ UploadIdle

SpecCache == InitCache /\ [][CacheNext]_vars

PageSizeNext == AddSelect \/ CallEnsureOnce \/ CallEnsureTwice

InitPageSize ==
    /\ PageSizeInit /\ GroupIdle /\ ExtractIdle /\ VerifyIdle /\ ScrapeIdle /\ NotifyIdle
    /\ DiscoverIdle /\ CacheIdle /\ UploadIdle

SpecPageSize == InitPageSize /\ [][PageSizeNext]_vars

UploadNext == UploadCreateClient \/ UploadSkipItem \/ UploadBuildRow \/ UploadFinish

InitUpload ==
    /\ UploadInit /\ GroupIdle /\ ExtractIdle /\ VerifyIdle /\ ScrapeIdle /\ NotifyIdle
    /\ DiscoverIdle /\ CacheIdle /\ PageSizeIdle

SpecUpload == InitUpload /\ [][UploadNext]_vars

(***************************************************************************)
(* Properties of group_slots_by_time_block (checked under SpecGroup)       *)
(***************************************************************************)
\* the permutations of 1..n
Perms(n) == {f \in [1..n -> 1..n] : \A a, b \in 1..n : f[a] = f[b] => a = b}

Permuted(d, f) == [n \in 1..Len(d) |-> d[f[n]]]

\* the two-hour blocks as (court, start, end)
BlockSet(list) == {<<list[n].court, list[n].start, list[n].end>> : n \in 1..Len(list)}

\* the dict objects that are the first or second hour of some block
BlockSources(list) == UNION {{list[n].src[1], list[n].src[2]} : n \in 1..Len(list)}

\* the dict objects filed under some one-hour time block
OneHourMembers(tb) == UNION {Range(tb[k]) : k \in DOMAIN tb}

\* C7: the set of two-hour blocks (court, start, end) formed by the pairing
\* step is the same for every permutation of the input list.
C7_PairingOrderIndependent ==
    gpc = "done" =>
        \A f \in Perms(Len(data)) :
            BlockSet(PairAdjacentHours(Permuted(data, f)).list)
                = BlockSet(grouped.two_hour_slots_list)

\* the call was made on a list whose order matters to an unsorted pairing:
\* a later hour precedes an earlier hour of the same court, and a block was formed
C7_Witness ==
    /\ gpc = "done"
    /\ Len(grouped.two_hour_slots_list) >= 1
    /\ \E a, b \in 1..Len(data) :
          /\ a < b
          /\ ParseOk(data[a].time) /\ ParseOk(data[b].time)
          /\ data[a].court = data[b].court
          /\ DtOf(data, a) > DtOf(data, b)

\* C8: no input slot is both a source slot of a two-hour block and a member
\* of a one-hour group.
C8_NoSlotInBothGroups ==
    gpc = "done" =>
        BlockSources(grouped.two_hour_slots_list) \cap OneHourMembers(grouped.time_blocks) = {}

\* a call that produced a two-hour block and a one-hour group at once
C8_Witness ==
    /\ gpc = "done"
    /\ BlockSources(grouped.two_hour_slots_list) # {}
    /\ OneHourMembers(grouped.time_blocks) # {}

\* slot k has a same-court slot in the hour before or the hour after it
HasNeighbour(d, k) ==
    \E m \in 1..Len(d) :
        /\ m # k
        /\ ParseOk(d[m].time)
        /\ d[m].court = d[k].court
        /\ (DtOf(d, m) = DtOf(d, k) + 1 \/ DtOf(d, m) + 1 = DtOf(d, k))

ExampleC9 ==
    << [court |-> "Court 01", time |-> <<0, 3, "PM">>, link |-> LinkOf("Court 01")],
       [court |-> "Court 01", time |-> <<0, 4, "PM">>, link |-> LinkOf("Court 01")],
       [court |-> "Court 02", time |-> <<0, 3, "PM">>, link |-> LinkOf("Court 02")] >>

\* C9: a slot with no same-court slot one hour before or after it is in no
\* block and is a member of the one-hour group of its (date, hour); for
\* [Court01@15:00, Court01@16:00, Court02@15:00] the only block is
\* (Court01, 15:00-17:00) and Court02@15:00 alone forms the hour-15 group.
C9_PairingStaysOnCourt ==
    gpc = "done" =>
        /\ \A k \in 1..Len(data) :
              (ParseOk(data[k].time) /\ ~HasNeighbour(data, k)) =>
                  /\ k \notin BlockSources(grouped.two_hour_slots_list)
                  /\ BlockKey(DtOf(data, k)) \in DOMAIN grouped.time_blocks
                  /\ k \in Range(grouped.time_blocks[BlockKey(DtOf(data, k))])
        /\ data = ExampleC9 =>
              /\ BlockSet(grouped.two_hour_slots_list) = {<<"Court 01", 15, 17>>}
              /\ Len(grouped.two_hour_slots_list) = 1
              /\ DOMAIN grouped.time_blocks = {<<0, 15>>}
              /\ grouped.time_blocks[<<0, 15>>] = <<3>>

\* the call was made on the example list
C9_Witness == gpc = "done" /\ data = ExampleC9

\* C10: blocks are formed in chronological order of their first hour, and no
\* input slot is a source slot of more than one block; three consecutive
\* hours of one court give one block over the first two and leave the third.
C10_NoSlotInTwoBlocks ==
    gpc = "done" =>
        LET list == grouped.two_hour_slots_list IN
        /\ \A m, n \in 1..Len(list) : m < n => list[m].start <= list[n].start
        /\ \A m, n \in 1..Len(list) :
              m # n => {list[m].src[1], list[m].src[2]} \cap {list[n].src[1], list[n].src[2]} = {}
        /\ \A n \in 1..Len(list) : list[n].src[1] # list[n].src[2]

\* three consecutive hours of one court were grouped: one block, the third hour left over
C10_Witness ==
    /\ gpc = "done"
    /\ \E a, b, c \in 1..Len(data) :
          /\ ParseOk(data[a].time) /\ ParseOk(data[b].time) /\ ParseOk(data[c].time)
          /\ data[a].court = data[b].court /\ data[b].court = data[c].court
          /\ DtOf(data, b) = DtOf(data, a) + 1
          /\ DtOf(data, c) = DtOf(data, b) + 1
          /\ Len(grouped.two_hour_slots_list) = 1
          /\ grouped.two_hour_slots_list[1].src = <<a, b>>
          /\ c \in OneHourMembers(grouped.time_blocks)

(***************************************************************************)
(* Properties of _scrape_court_schedule (checked under SpecExtract)        *)
(***************************************************************************)
\* the hour of an emitted dict's time string makes a valid timestamp
EntryTimeOk(e) == DatetimeOk(To24Hour(e.time[2], e.time[3]))

\* the start of an emitted dict, for a valid time string
EntryStart(e) == SlotDatetime(e.time[1], To24Hour(e.time[2], e.time[3]))

\* now, truncated to the minute
TruncMinute(now) == now - (now % 60)

SpanClockOk(sp) ==
    /\ sp.title.kind = "clock"
    /\ DatetimeOk(To24Hour(sp.title.hh, sp.title.period))

SpanStart(sp) == SlotDatetime(DayOffset(sp.left), To24Hour(sp.title.hh, sp.title.period))

LastEntryIs(e) == Len(entries) >= 1 /\ entries[Len(entries)] = e

\* C4: every emitted slot starts before now + 72h; a bookable cell that
\* starts exactly at now + 72h is not emitted.
C4_UpperBoundExclusive ==
    \A n \in 1..Len(entries) :
        EntryTimeOk(entries[n]) => EntryStart(entries[n]) < MaxDatetime(now_vancouver)

\* C5: a bookable cell that starts at now truncated to the minute is emitted,
\* and no emitted slot starts before that instant.
C5_LowerBoundMinuteTruncated ==
    /\ (/\ cellIdx > 0
        /\ SpanClockOk(span)
        /\ IsBookable(span.text)
        /\ SpanStart(span) = TruncMinute(now_vancouver))
       => LastEntryIs(EntryOf(ExtractCourt, span))
    /\ \A n \in 1..Len(entries) :
          EntryTimeOk(entries[n]) => EntryStart(entries[n]) >= TruncMinute(now_vancouver)

\* C6 as stated: no emitted slot has a time label that cannot be turned into
\* a valid timestamp.
C6_UnparseableDropped ==
    \A n \in 1..Len(entries) : EntryTimeOk(entries[n])

\* C6 as amended: a span whose title holds no "<h>:00 AM|PM" time yields no
\* slot; a bookable span whose hour makes datetime() raise is appended
\* anyway, unfiltered by the horizon; the loop goes on with the next span.
C6_ParseFailureKept ==
    /\ \A n \in 1..Len(entries) : entries[n].time[3] \in {"AM", "PM"}
    /\ (/\ cellIdx > 0
        /\ span.title.kind = "clock"
        /\ IsBookable(span.text)
        /\ ~DatetimeOk(To24Hour(span.title.hh, span.title.period)))
       => (LastEntryIs(EntryOf(ExtractCourt, span)) /\ epc \in {"loop", "done"})
    /\ (cellIdx > 0 /\ span.title.kind # "clock" /\ IsBookable(span.text))
       => ~LastEntryIs(EntryOf(ExtractCourt, span))

\* a span labelled 13:00 PM was kept and the loop went on to emit the next span
C6_Witness ==
    /\ Len(entries) = 2
    /\ ~EntryTimeOk(entries[1])
    /\ EntryTimeOk(entries[2])
    /\ cellIdx = 2

(***************************************************************************)
(* Properties of _verify_court_on_page (checked under SpecVerify)          *)
(***************************************************************************)
\* the signals that name the requested court on the page
MatchingSignals(pg, court_name) ==
    {sig \in {"title", "headings", "body", "url"} :
        \/ sig = "title" /\ TitleSignal(pg, court_name)
        \/ sig = "headings" /\ HeadingSignal(pg, court_name)
        \/ sig = "body" /\ BodySignal(pg, court_name)
        \/ sig = "url" /\ UrlSignal(pg, court_name)}

\* C3 as stated: the page is accepted only on corroborating evidence, never
\* on one matching signal while the others do not match.
C3_NoSingleSignalSuffices ==
    (vpc = "done" /\ vresult) => Cardinality(MatchingSignals(vpage, vcourt)) >= 2

\* C3 as amended: the page is accepted exactly when at least one of the four
\* signals (title, a heading, body text with at most 2 court mentions, URL)
\* names the court; each signal is sufficient by itself.
C3_AnySignalSuffices ==
    vpc = "done" => (vresult <=> MatchingSignals(vpage, vcourt) # {})

\* a page accepted on its title alone
C3_Witness ==
    /\ vpc = "done"
    /\ vresult
    /\ MatchingSignals(vpage, vcourt) = {"title"}

(***************************************************************************)
(* Properties of scrape_courts (checked under Spec)                        *)
(***************************************************************************)
\* C1: _verify_court_on_page never accepts, for a requested court, a page
\* that displays another court, and no slot tagged with a court was read
\* from a page that displayed another court.
C1_WrongCourtNeverAccepted ==
    /\ (lastVerify.ok /\ lastVerify.shown # "") => lastVerify.shown = lastVerify.court
    /\ \A n \in 1..Len(results) : results[n].src = results[n].court

\* C2: when the wait for the schedule page timed out or the final
\* verification failed, _scrape_court_schedule is not called in that
\* iteration and results holds what it held when the iteration began.
C2_NoScrapeWithoutVerification ==
    /\ (iter.wait = "timeout" \/ iter.final = "failed")
          => (~iter.scraped /\ Len(results) = iter.base)
    /\ iter.scraped => (iter.wait = "ok" /\ iter.final = "ok")

\* the wait of a later court timed out after the whole budget, with slots of
\* an earlier court already collected
C2_Witness ==
    /\ iter.wait = "timeout"
    /\ elapsed >= MaxWait
    /\ pc = "loop"
    /\ Len(results) >= 1

(***************************************************************************)
(* Properties of find_one_hour_slots and find_two_hour_slots               *)
(* (checked under SpecGroup)                                               *)
(***************************************************************************)
\* what identifies a two-hour block: its court and its two time strings
BlockOfPair(b) == <<b.court, b.start_time, b.end_time>>
BlockOfGroup(b) == <<b.court, b.start_time_str, b.end_time_str>>

\* C11: find_two_hour_slots returns the first 3 two-hour blocks that
\* group_slots_by_time_block forms on the same input, and no slot is
\* consumed by two of the blocks it returns.
C11_TwoHourMatchesGrouping ==
    gpc = "done" =>
        /\ [n \in 1..Len(two_hour_slots) |-> BlockOfPair(two_hour_slots[n])]
              = Take([n \in 1..Len(grouped.two_hour_slots_list) |->
                         BlockOfGroup(grouped.two_hour_slots_list[n])], TopN)
        /\ \A m, n \in 1..Len(two_hour_slots) :
              m # n => Range(two_hour_slots[m].src) \cap Range(two_hour_slots[n].src) = {}

\* the slots group_slots_by_time_block leaves to the one-hour groups, in order of start
UnconsumedSlots ==
    LET parsed == Parsed(data)
        rest   == SelectSeq(parsed, LAMBDA k : k \notin grouped.processed_indices)
    IN  [n \in 1..Len(rest) |-> <<data[rest[n]].court, data[rest[n]].time>>]

\* C12: find_one_hour_slots returns the first 3 of the slots that block
\* pairing in group_slots_by_time_block leaves unconsumed on the same input.
C12_OneHourMatchesGrouping ==
    gpc = "done" =>
        [n \in 1..Len(one_hour_slots) |-> <<one_hour_slots[n].court, one_hour_slots[n].time>>]
           = Take(UnconsumedSlots, TopN)

\* C13: no slot returned by find_one_hour_slots is the first or second hour
\* of a two-hour block that find_two_hour_slots forms from the same input.
C13_SinglesNotInBlocks ==
    gpc = "done" =>
        \A m \in 1..Len(one_hour_slots), n \in 1..Len(two_hour_slots) :
            one_hour_slots[m].src \notin Range(two_hour_slots[n].src)

(***************************************************************************)
(* Properties of process_notifications (checked under SpecNotify)          *)
(***************************************************************************)
\* the pairs (slot position, subscription position) the matching rule selects
MatchingPairs ==
    {<<i, j>> \in (1..Len(new_slots)) \X (1..Len(subscriptions)) :
        /\ new_slots[i].time # <<>>
        /\ new_slots[i].time[3] \in {"AM", "PM"} => new_slots[i].time[2] \in 1..12
        /\ DayName(new_slots[i].time) = subscriptions[j].day_of_week
        /\ subscriptions[j].start_hour <= Hour24(new_slots[i].time[2], new_slots[i].time[3])
        /\ Hour24(new_slots[i].time[2], new_slots[i].time[3]) <= subscriptions[j].end_hour}

\* the pairs the loops have already passed
PairsPassed ==
    {<<i, j>> \in (1..Len(new_slots)) \X (1..Len(subscriptions)) :
        i < nslot \/ (i = nslot /\ j < nsub)}

\* the pass went through the loops to their end
PassCompleted == npc = "done" /\ nslot > Len(new_slots)

\* C14: with a client, BOT_TOKEN and a subscription, exactly one send is
\* attempted for each pair (slot occurrence, subscription) with equal weekday
\* and start_hour <= hour <= end_hour, and none for any other pair.
C14_OneSendPerMatchingPair ==
    /\ \A n \in 1..Len(sends) : <<sends[n].slot, sends[n].sub>> \in MatchingPairs
    /\ \A m, n \in 1..Len(sends) :
          (sends[m].slot = sends[n].slot /\ sends[m].sub = sends[n].sub) => m = n
    /\ PassCompleted =>
          \A pr \in MatchingPairs : \E n \in 1..Len(sends) : <<sends[n].slot, sends[n].sub>> = pr

\* a Wednesday 8-22 subscription, twice, and Wednesday slots at 22:00 (twice,
\* the same slot) : four sends, one per pair
C14_Witness ==
    /\ PassCompleted
    /\ Len(new_slots) = 2 /\ new_slots[1] = new_slots[2]
    /\ new_slots[1].time = <<0, 10, "PM">>
    /\ Len(subscriptions) = 2 /\ subscriptions[1] = subscriptions[2]
    /\ subscriptions[1].end_hour = 22
    /\ Len(sends) = 4

\* C15: a failed send (HTTP error status or exception) does not stop the
\* pass: every matching pair the loops have passed has had its send
\* attempted, whatever the outcome of the sends before it, and a pass that
\* fetched the subscriptions always runs to the end of both loops.
C15_FailedSendDoesNotBlock ==
    /\ \A pr \in MatchingPairs \cap PairsPassed :
          \E n \in 1..Len(sends) : <<sends[n].slot, sends[n].sub>> = pr
    /\ (npc = "done" /\ nslot >= 1) => nslot > Len(new_slots)

\* the first send failed and a later one was still attempted
C15_Witness ==
    /\ Len(sends) >= 2
    /\ sends[1].outcome \in {"http_error", "raised"}
    /\ PassCompleted

(***************************************************************************)
(* Properties of the navigation back to the list and of the failure        *)
(* handling in scrape_courts (checked under Spec)                          *)
(***************************************************************************)
\* the loop goes on: it is at the top of the for loop, or it ended because
\* the target list is exhausted
LoopGoesOn == pc = "loop" \/ (pc = "done" /\ courtIdx = Len(court_names))

\* C16: after a court was scraped, the direct navigation runs exactly when
\* page.go_back() did not bring the list page, and when it succeeds the loop
\* goes on with the next court.
C16_FallbackAfterFailedBack ==
    /\ iter.back # "none" => iter.scraped
    /\ iter.fallback # "none" => iter.back = "failed"
    /\ (iter.back = "failed" /\ iter.fallback = "none") => pc = "fallback"
    /\ iter.back = "ok" => (iter.fallback = "none" /\ LoopGoesOn)
    /\ iter.fallback = "ok" => LoopGoesOn

\* go_back failed, the direct navigation succeeded, and courts are left
C16_Witness ==
    /\ iter.back = "failed" /\ iter.fallback = "ok"
    /\ pc = "loop" /\ courtIdx < Len(court_names)
    /\ Len(results) >= 1

\* C17: when go_back and the direct navigation both fail, the loop stops
\* and what scrape_courts returns is results as it was after that court's
\* scrape.
C17_BothFailStopsRun ==
    iter.fallback = "failed" =>
        /\ pc = "done"
        /\ results = iter.collected
        /\ \A n \in 1..Len(iter.before) : results[n] = iter.before[n]

\* both navigations failed after the second of three courts, with slots of
\* both courts collected
C17_Witness ==
    /\ iter.fallback = "failed"
    /\ pc = "done"
    /\ courtIdx = 2 /\ Len(court_names) = 3
    /\ Len(iter.before) >= 1 /\ Len(results) > Len(iter.before)

\* C18: once the list page could not be restored (after a scrape, or at the
\* start of an iteration), no later court is attempted.
C18_ListLossAbortsRun ==
    hist.list_lost => pc \in {"loop", "done"}

\* C19: a failure of one court (no Choose button, click failure, wait
\* timeout or failed final verification, exception) adds no slot, leaves
\* results as it was when the iteration began, and the loop goes on.
C19_FailureIsolated ==
    iter.fail \in {"button", "click", "timeout", "final", "raised"} =>
        /\ results = iter.before
        /\ LoopGoesOn

\* an exception after the final verification had succeeded, with slots of
\* an earlier court collected and courts left
C19_Witness ==
    /\ iter.fail = "raised" /\ iter.final = "ok"
    /\ Len(results) >= 1
    /\ pc = "loop" /\ courtIdx < Len(court_names)

\* C20: within one run, the click on the Choose button that starts the
\* navigate-verify-extract sequence goes through at most once per court name.
C20_AtMostOneAttempt ==
    \A c \in CourtNames : hist.attempts[c] <= 1

(***************************************************************************)
(* Properties of the list scrape_courts returns (checked under Spec)       *)
(***************************************************************************)
\* the position at which a court name is first met in the target list
FirstIndex(c) ==
    CHOOSE i \in 1..Len(court_names) :
        court_names[i] = c /\ \A j \in 1..(i - 1) : court_names[j] # c

\* C21: results is the concatenation of the courts' extracted slots in the
\* order the courts were processed: no two courts' slots are interleaved,
\* and the slots of one court are in the order of their extraction.
C21_ResultsInProcessingOrder ==
    /\ \A n \in 1..Len(results) : results[n].court \in Range(court_names)
    /\ \A m, n \in 1..Len(results) :
          m < n =>
             /\ FirstIndex(results[m].court) <= FirstIndex(results[n].court)
             /\ results[m].court = results[n].court => results[n].n = results[m].n + (n - m)

\* two courts were scraped, two slots each
C21_Witness ==
    /\ pc = "done"
    /\ Len(results) = 4
    /\ results[1].court # results[4].court
    /\ results[2].n = 2 /\ results[4].n = 2

(***************************************************************************)
(* Properties of the progress reports of scrape_courts                     *)
(***************************************************************************)

RECURSIVE CallsFor(_, _)
\* the number of calls in progress that carry court_name
CallsFor(progress, court_name) ==
    IF progress = <<>> THEN 0
    ELSE (IF Head(progress).court_name = court_name THEN 1 ELSE 0)
         + CallsFor(Tail(progress), court_name)

\* the positions of the loop body, between the callback and the next court
InBody ==
    pc \in {"find_button", "click", "wait_schedule", "final_verify", "scrape_verify",
            "scrape_cells", "go_back", "fallback"}

\* C22: progress_callback is called once at the start of each attempted court,
\* with that court's name, and once more with court_name None when the loop
\* is left, also when it is left early; no exception leaves scrape_courts
\* once the loop has begun, so one raised by the callback does not either.
C22_ProgressCallbacks ==
    /\ Len(hist.progress) - CallsFor(hist.progress, "None") = hist.entered
    /\ \A c \in CourtNames : hist.attempts[c] <= CallsFor(hist.progress, c)
    /\ InBody => /\ hist.progress # <<>>
                 /\ hist.progress[Len(hist.progress)].court_name = CurrentCourt
                 /\ hist.progress[Len(hist.progress)].total = Len(court_names)
    /\ CallsFor(hist.progress, "None") = IF pc = "done" THEN 1 ELSE 0
    /\ pc = "done" =>
          hist.progress[Len(hist.progress)]
              = ProgressCall(Len(court_names), Len(court_names), "None")
    /\ pc = "raised" => courtIdx = 0

\* the callback raised at the start of a court whose slots were then collected,
\* and the run ended early, before the last court, with the final report
C22_Witness ==
    /\ pc = "done"
    /\ courtIdx < Len(court_names)
    /\ iter.callback = "raised"
    /\ iter.collected # <<>>
    /\ CallsFor(hist.progress, "None") = 1

(***************************************************************************)
(* Properties of the failures of scrape_courts                             *)
(***************************************************************************)

\* C23: once the browser session is started scrape_courts never raises: every
\* later failure ends in a returned slot list.  Violated: a failed
\* page.goto(base_url), an unclickable 'Book a Court' control and an empty
\* discovery each leave the function with an exception.
C23_NeverRaisesAfterStart == pc # "raised"

(***************************************************************************)
(* Properties of the discovery of the courts                               *)
(***************************************************************************)

\* the identifier the specification gives to court number n: two digits
TwoDigits(n) == <<n \div 10, n % 10>>

\* the identifiers of the labels shown
ShownIdentifiers == {TwoDigits(DigitsValue(dlabels[n])) : n \in 1..Len(dlabels)}

\* C29: discovery gives the labels "Court N" and "Court 0N" the same
\* identifier "Court NN", lists each identifier of a shown label once and no
\* other, and orders the list ascending by the number.
C29_DiscoveryNormalises ==
    dpc = "done" =>
      /\ {dcourts[n] : n \in 1..Len(dcourts)} = ShownIdentifiers
      /\ Len(dcourts) = Cardinality(ShownIdentifiers)
      /\ \A i, j \in 1..Len(dcourts) :
            i < j => DigitsValue(dcourts[i]) < DigitsValue(dcourts[j])

\* the page showed "Court 10", "Court 2", "Court 02" and "Court 1": three
\* courts are listed, Court 02 before Court 10
C29_Witness ==
    /\ dpc = "done"
    /\ dlabels = << <<1, 0>>, <<2>>, <<0, 2>>, <<1>> >>
    /\ dcourts = << <<0, 1>>, <<0, 2>>, <<1, 0>> >>

(***************************************************************************)
(* Properties of save_cache and load_cache                                 *)
(***************************************************************************)

\* C24: when save_cache has returned from an upload that had a client, the
\* court_slots table holds one row per slot of data with a parseable time, in
\* order, and no row of an earlier run, however the delete and the insert
\* ended.  Violated: a failed delete is passed over and the insert adds to the
\* old rows; a failed insert leaves the table empty.
C24_ReplaceAllWrite ==
    (cpc = "returned" /\ chist.client) => table = CleanRows(sdata, 1)

\* the canonical form of a slot: court and instant when the time parses
CanonSlot(slot) ==
    IF StrptimeOk(slot.time)
    THEN [court |-> slot.court, start |-> <<slot.time[1], StrptimeHour(slot.time)>>]
    ELSE [court |-> slot.court, raw |-> slot.time]

\* the slots of a list, and those of them whose time parses
SlotSet(lst) == {CanonSlot(lst[n]) : n \in 1..Len(lst)}
CleanSet(lst) == {CanonSlot(lst[n]) : n \in {m \in 1..Len(lst) : StrptimeOk(lst[m].time)}}

\* C25: a load_cache that runs beside save_cache returns the whole slot set
\* stored before the save or the whole new one (with or without the slots
\* whose time does not parse), never an empty, partial or mixed set.
\* Violated: after a failed delete the table holds old and new rows; while
\* the JSON file is being written a load without rows reads an empty file.
C25_LoadSeesOldOrNew ==
    lpc = "returned" =>
        SlotSet(loaded.data) \in {SlotSet(chist.before), CleanSet(chist.before),
                                  SlotSet(sdata), CleanSet(sdata)}

\* C26: load_cache returns the rows of the table, converted, with source
\* 'supabase' when the select gave at least one row; when there is no client,
\* the select raised or gave no row, it returns the content of the JSON file
\* with source 'json'; it returns ([], 'none') only when the file is also
\* missing or not valid JSON.
C26_LoadFallbackChain ==
    lpc = "returned" =>
      /\ (loaded.primary = "rows" /\ loaded.rows # <<>>) =>
            /\ loaded.source = "supabase"
            /\ loaded.json = Unread
            /\ Len(loaded.data) = Len(loaded.rows)
            /\ \A n \in 1..Len(loaded.rows) :
                 /\ loaded.data[n].court = loaded.rows[n].court_name
                 /\ CanonSlot(loaded.data[n]).start = loaded.rows[n].start_time
      /\ (loaded.primary \in {"unavailable", "raised", "empty"}
            \/ (loaded.primary = "rows" /\ loaded.rows = <<>>)) =>
            /\ loaded.json # Unread
            /\ loaded.json.state = "valid" =>
                 (loaded.source = "json" /\ loaded.data = loaded.json.data)
            /\ loaded.json.state \in {"missing", "invalid"} =>
                 (loaded.source = "none" /\ loaded.data = <<>>)
      /\ loaded.source = "none" => loaded.json.state \in {"missing", "invalid"}

\* the table was empty and the file held two slots: they are returned from
\* the file
C26_Witness ==
    /\ lpc = "returned"
    /\ loaded.primary = "empty"
    /\ loaded.source = "json"
    /\ Len(loaded.data) = 2

\* C27: save_cache writes to the two stores independently: a failed write of
\* the JSON file does not keep clean_and_upload_to_supabase from being
\* called, and a failed upload leaves the JSON file written.  Violated: the
\* exception of path.write_text leaves save_cache before the upload.
C27_StoresIndependent ==
    /\ (cpc \in {"returned", "raised"} /\ chist.write = "raised") => chist.upload_called
    /\ (cpc = "returned" /\ (~chist.client \/ chist.insert = "failed")) =>
          file = ValidFile(sdata)

(***************************************************************************)
(* Properties of _ensure_page_size_20                                      *)
(***************************************************************************)

\* the control of the list's page size is a select that can be read and is at 20
PageSizeIsTwenty(elems) ==
    \E n \in 1..Len(elems) :
        /\ elems[n].role = "page_size" /\ elems[n].tag = "select"
        /\ ~elems[n].broken /\ elems[n].value = "20"

\* C28: when the page size of the list is 20 already, _ensure_page_size_20
\* changes no element, dispatches no change event and returns True; and a
\* second call right after a first one leaves the page as the first left it.
C28_EnsureIdempotent ==
    /\ (zpc \in {"once", "twice"} /\ PageSizeIsTwenty(zelems)) =>
          (zfirst.ret /\ zfirst.page = zelems /\ zfirst.events = 0)
    /\ zpc = "twice" => zsecond.page = zfirst.page

\* the first call set the page-size select, the second element of the page,
\* from 10 to 20; the second call found it at 20 and changed nothing
C28_Witness ==
    /\ zpc = "twice"
    /\ Len(zelems) = 2
    /\ zelems[2].role = "page_size" /\ zelems[2].value = "10"
    /\ zfirst.events = 1 /\ zfirst.page[2].value = "20"
    /\ zsecond.events = 0 /\ zsecond.ret

(***************************************************************************)
(* Order independence of group_slots_by_time_block (under SpecGroup)       *)
(***************************************************************************)

\* the groups of a list of events: start (date and hour), courts, isTwoHour
\* and the representative link
GroupSet(events) ==
    {[start |-> events[n].start, courts |-> events[n].courts,
      isTwoHour |-> events[n].isTwoHour, link |-> events[n].link] : n \in 1..Len(events)}

\* C30: the groups group_slots_by_time_block returns (date, hour, courts,
\* isTwoHour, representative link) are the same for every permutation of the
\* input list.  Violated: the sort is by time only and stable, so the first
\* item of a time block, whose link is taken, is the one that came first in
\* the input.
C30_GroupsOrderIndependent ==
    gpc = "done" =>
        \A f \in Perms(Len(data)) :
            GroupSet(GroupSlotsByTimeBlock(Permuted(data, f)).events) = GroupSet(grouped.events)

(***************************************************************************)
(* Properties of the groups of group_slots_by_time_block (under SpecGroup) *)
(***************************************************************************)

\* C32: in every group the courts are strictly ascending by court number, so
\* no court is listed twice, also when the input holds the same (court, time)
\* slot more than once.  Violated: two equal slots are both filed under
\* their hour and the court is listed twice.
C32_CourtsStrictlyAscending ==
    gpc = "done" =>
        \A n \in 1..Len(grouped.events) :
            \A i, j \in 1..Len(grouped.events[n].courts) :
                i < j => CourtNum(grouped.events[n].courts[i]) < CourtNum(grouped.events[n].courts[j])

RECURSIVE CourtsListed(_, _)
\* the number of courts listed by the events of the given kind
CourtsListed(events, isTwoHour) ==
    IF events = <<>> THEN 0
    ELSE (IF Head(events).isTwoHour = isTwoHour THEN Len(Head(events).courts) ELSE 0)
         + CourtsListed(Tail(events), isTwoHour)

\* the input positions whose time parses
ParseablePositions == {k \in 1..Len(data) : ParseOk(data[k].time)}

\* C38: no parseable input slot is dropped: each is a source slot of exactly
\* one two-hour block or a member of exactly one one-hour group, and the
\* number of parseable slots is 2 x (blocks) + (sizes of the one-hour groups),
\* in the intermediate collections and in the courts the events list.
C38_NoSlotDropped ==
    gpc = "done" =>
        /\ BlockSources(grouped.two_hour_slots_list) \cup OneHourMembers(grouped.time_blocks)
              = ParseablePositions
        /\ Cardinality(ParseablePositions)
              = 2 * Len(grouped.two_hour_slots_list)
                + Cardinality(OneHourMembers(grouped.time_blocks))
        /\ Cardinality(ParseablePositions)
              = 2 * CourtsListed(grouped.events, TRUE) + CourtsListed(grouped.events, FALSE)

\* three parseable slots: one block and one slot left to a one-hour group
C38_Witness ==
    /\ gpc = "done"
    /\ Cardinality(ParseablePositions) = 3
    /\ Len(grouped.two_hour_slots_list) = 1
    /\ Cardinality(OneHourMembers(grouped.time_blocks)) = 1

\* C39: after the pairing no two slots left to the one-hour groups are on the
\* same court at consecutive hours.
C39_PairingMaximal ==
    gpc = "done" =>
        \A a, b \in OneHourMembers(grouped.time_blocks) :
            ~(/\ a # b
              /\ data[a].court = data[b].court
              /\ DtOf(data, b) = DtOf(data, a) + 1)

\* 11 PM and the midnight after it on one court were paired across the
\* change of date, and a slot of the other court was left
C39_Witness ==
    /\ gpc = "done"
    /\ Len(grouped.two_hour_slots_list) = 1
    /\ DtDate(grouped.two_hour_slots_list[1].start) # DtDate(grouped.two_hour_slots_list[1].end - 1)
    /\ OneHourMembers(grouped.time_blocks) # {}

(***************************************************************************)
(* Properties of the classification of the labels (under SpecExtract)      *)
(***************************************************************************)

\* C33: a label gives a slot only if its text says the cell can be booked:
\* status 'Bookable in 24h' for the 24-hours-in-advance phrase, 'Open' for
\* a book-now phrase, no slot for any other text.  Violated: "booked"
\* contains "book" and is shorter than 50 characters, so it gives an 'Open'
\* slot.
C33_OnlyBookableTexts ==
    \A n \in 1..Len(entries) :
        \/ entries[n].status = "Bookable in 24h" /\ entries[n].raw_text = "bookable 24hrs in advance"
        \/ entries[n].status = "Open" /\ entries[n].raw_text = "book now"

(***************************************************************************)
(* Properties of the progress index and of browser.close() (under Spec)    *)
(***************************************************************************)

\* the calls of progress_callback made at the start of a court
CourtCalls == SelectSeq(hist.progress, LAMBDA call : call.court_name # "None")

\* C36: the index passed to progress_callback at the start of a court is
\* strictly increasing over the run, never exceeds total, and is the 1-based
\* position of the court in the target list, whether or not earlier courts
\* were skipped or failed.  Violated: the index is len(processed_courts) + 1,
\* and a court whose wait timed out is not added to processed_courts.
C36_ProgressIndexIsPosition ==
    /\ \A i, j \in 1..Len(CourtCalls) : i < j => CourtCalls[i].current < CourtCalls[j].current
    /\ \A i \in 1..Len(CourtCalls) : CourtCalls[i].current <= CourtCalls[i].total
    /\ InBody => CourtCalls[Len(CourtCalls)].current = courtIdx

C31_PageSize20AtButtonSearch ==
    (/\ pc = "find_button"
     /\ page.courtEls >= MinListCourts
     /\ NeedsPageSize20(CurrentCourt)) => page.size = WantedPageSize

\* the Choose button of Court 12 is searched on a list of page size 20
C31_SearchedAtSize20 ==
    /\ pc = "find_button"
    /\ page.courtEls >= MinListCourts
    /\ NeedsPageSize20(CurrentCourt)
    /\ page.size = WantedPageSize

(***************************************************************************)
(* Termination of scrape_courts (under SpecTerminates)                     *)
(***************************************************************************)
Terminated == pc \in {"done", "raised"}

\* the budgets of the two polling loops are never overrun and no more
\* iterations are entered than the target list has entries
WithinBudgets ==
    /\ elapsed <= MaxWait
    /\ iter.button_elapsed <= MaxButtonWait
    /\ hist.entered <= Len(court_names)
    /\ courtIdx <= Len(court_names)

\* C34: every polling loop of the navigator ends: the wait for the schedule
\* page within its 30 s budget, the search of the Choose button within its
\* 10 s budget, and scrape_courts ends after at most one visit of each entry
\* of the target list, whatever the site shows.
C34_ScrapeTerminates == []WithinBudgets /\ <>Terminated

\* scrape_courts has returned after two iterations: the first clicked the
\* Choose button and scraped nothing, the second ran out of the budget of
\* the button search
C34_Witness ==
    /\ pc = "done"
    /\ hist.entered = 2
    /\ Len(court_names) = 2
    /\ hist.attempts["Court 02"] = 1
    /\ results = <<>>
    /\ iter.fail = "button"
    /\ iter.button_elapsed = MaxButtonWait

(***************************************************************************)
(* Verification and extraction against page changes (under Spec)           *)
(***************************************************************************)

\* C35: the slots _scrape_court_schedule appends were read from the page
\* its own _verify_court_on_page call accepted: a page that changes after
\* that check contributes no slot.  Violated: the check is made once, before
\* the wait for #scheduler, and the cells are read from whatever page is
\* displayed afterwards.
C35_SlotsFromVerifiedPage ==
    (iter.scraped /\ lastVerify.ok /\ pc \in {"go_back", "fallback", "loop", "done"})
        => \A n \in (iter.base + 1)..Len(results) : results[n].src = lastVerify.shown

(***************************************************************************)
(* Properties of clean_and_upload (under SpecUpload)                       *)
(***************************************************************************)
\* the items of json_data whose time one of the two formats parses
ParseableItems(json_data) == SelectSeq(json_data, LAMBDA item : StrptimeOk(item.time))

\* C40: given a list with at least one item whose time parses,
\* clean_and_upload returns normally after one upsert that holds exactly one
\* row per item with a parseable time; items with an empty or unparseable
\* time are skipped.  Violated: building the first row raises AttributeError
\* (datetime.timezone), so no upsert is made.
C40_OneUpsertOfParseableItems ==
    (upc \in {"returned", "raised"} /\ ParseableItems(ujson) # <<>>)
        => /\ upc = "returned"
           /\ Len(upserts) = 1
           /\ Len(upserts[1]) = Len(ParseableItems(ujson))

\* what does hold: items without a parseable time are skipped, and a list
\* without any parseable item ends in a normal return without an upsert
C40_UnparseableOnlyReturns ==
    (upc \in {"returned", "raised"} /\ ParseableItems(ujson) = <<>>)
        => (upc = "returned" /\ upserts = <<>> /\ uidx = Len(ujson))

====
